---- MODULE Spec2Model ----
(***************************************************************************)
(* Breath detector of breathsense (firmware/ and firmware_nasalclip/).     *)
(*                                                                         *)
(* Number representation.  The firmware computes in floating point; the    *)
(* model computes in fixed point:                                          *)
(*   - signal values, gains and thresholds are integers in thousandths     *)
(*     (0.30 is 300, 0.994 is 994), products are divided by 1000 and       *)
(*     truncated toward zero;                                              *)
(*   - clock values and durations are integers in units of 5 ms, so the    *)
(*     sample period DT = 1/FS_HZ = 10 ms is 2 units and the caller's      *)
(*     clock can fall between two sample boundaries;                       *)
(*   - None (an unset Optional time) is -1.                                *)
(***************************************************************************)
EXTENDS Integers, Sequences, FiniteSets, TLC

None == -1

\* ---------------------------------------------------------------- config.py
FS_HZ == 100
\* DT = 1.0 / FS_HZ seconds, in clock units of 5 ms
DT == 2
\* c hundredths of a second, in clock units
Cs(c) == c * DT

ALPHA_FAST == 220
ALPHA_SLOW == 4
ALPHA_FLOW == 220
DERIV_GAIN == 180
TH_FRAC_START == 300
TH_FRAC_END == 200
\* 0.20 s
MIN_PHASE_S == 40
EMA_MAG == 200
LEAK_DECAY == 994
SCALE_FLOOR == 20
IDLE_MAG_FRAC == 200
IDLE_SLOPE_FRAC == 60
\* 2.2 s
IDLE_HOLD_S == 440
\* seconds, as clock units
DEFAULT_VERY_SHORT_MAX == 400
DEFAULT_SHORT_MAX == 700
DEFAULT_MEDIUM_MAX == 1000
DEFAULT_LONG_MAX == 1300

\* (alpha_flow, deriv_gain, th_start, th_end), index 0..9 of the source list
SENSITIVITY_PRESETS ==
  << <<280, 60, 450, 300>>,
     <<260, 80, 420, 280>>,
     <<240, 100, 400, 260>>,
     <<220, 120, 380, 240>>,
     <<200, 120, 360, 220>>,
     <<180, 120, 350, 200>>,
     <<160, 140, 330, 200>>,
     <<140, 160, 310, 180>>,
     <<120, 180, 290, 160>>,
     <<100, 200, 270, 140>> >>

PH_IDLE == 0
PH_INH == 1
PH_EXH == 2

\* ------------------------------------------------------------ arithmetic
Max(a, b) == IF a >= b THEN a ELSE b
Min(a, b) == IF a <= b THEN a ELSE b
Abs(a) == IF a >= 0 THEN a ELSE -a
\* quotient truncated toward zero
Div(a, b) == IF a >= 0 THEN a \div b ELSE -((-a) \div b)
\* product of a value and a factor given in thousandths
Mul(a, f) == Div(a * f, 1000)
\* max(1e-6, denom): the smallest positive denominator of the representation
EPS_DENOM == 1


\* ------------------------------------------------ breath_detector.py
\* BreathDetector.__init__ at clock value t0
DetectorInit(t0) ==
  [ t_fast |-> 0, t_slow |-> 0, prev_flow |-> 0, flow_lp |-> 0,
    scale_ex |-> 100, scale_in |-> 100, peak_ex |-> 100, peak_in |-> 100,
    phase |-> PH_IDLE, t_phase_start |-> t0, refrac_until |-> 0,
    peak_val |-> 0, prev_norm |-> 0, idle_hold_start |-> None, norm |-> 0,
    last_exhale_duration |-> Cs(200), exhale_start_time |-> None,
    last_inhale_duration |-> Cs(200), inhale_start_time |-> None,
    unworn |-> FALSE, short_streak |-> 0,
    artifact_short_max |-> Cs(60), unworn_streak_needed |-> 6,
    worn_recovery_min |-> Cs(150),
    last_exhale_time |-> None, last_exhale_short |-> FALSE,
    very_short_max |-> DEFAULT_VERY_SHORT_MAX, short_max |-> DEFAULT_SHORT_MAX,
    medium_max |-> DEFAULT_MEDIUM_MAX, long_max |-> DEFAULT_LONG_MAX,
    alpha_flow |-> ALPHA_FLOW, deriv_gain |-> DERIV_GAIN,
    th_start |-> TH_FRAC_START, th_end |-> TH_FRAC_END,
    next_proc |-> t0 ]

\* preset_id = max(0, min(9, preset_id))
\* (variant: the id wraps around)
ClampPresetWrap(p) == p % 10

ClampPreset(p) == Max(0, Min(9, p))

\* BreathDetector.apply_sensitivity
\* (variant: the preset also puts the detector back into Idle)
apply_sensitivity_to_idle(d, preset_id) ==
  LET pr == SENSITIVITY_PRESETS[ClampPreset(preset_id) + 1]
  IN [d EXCEPT !.alpha_flow = pr[1], !.deriv_gain = pr[2],
               !.th_start = pr[3], !.th_end = pr[4],
               !.t_fast = 0, !.t_slow = 0, !.prev_flow = 0, !.flow_lp = 0,
               !.phase = PH_IDLE]

\* (variant: the filters keep their state)
apply_sensitivity_keep_filters(d, preset_id) ==
  LET pr == SENSITIVITY_PRESETS[ClampPreset(preset_id) + 1]
  IN [d EXCEPT !.alpha_flow = pr[1], !.deriv_gain = pr[2],
               !.th_start = pr[3], !.th_end = pr[4]]

\* (variant: the derivative gain adds up)
apply_sensitivity_adding_gain(d, preset_id) ==
  LET pr == SENSITIVITY_PRESETS[ClampPreset(preset_id) + 1]
  IN [d EXCEPT !.alpha_flow = pr[1], !.deriv_gain = @ + pr[2],
               !.th_start = pr[3], !.th_end = pr[4],
               !.t_fast = 0, !.t_slow = 0, !.prev_flow = 0, !.flow_lp = 0]

apply_sensitivity(d, preset_id) ==
  LET pr == SENSITIVITY_PRESETS[ClampPreset(preset_id) + 1]
  IN [d EXCEPT !.alpha_flow = pr[1], !.deriv_gain = pr[2],
               !.th_start = pr[3], !.th_end = pr[4],
               !.t_fast = 0, !.t_slow = 0, !.prev_flow = 0, !.flow_lp = 0]

\* BreathDetector.apply_color_thresholds
apply_color_thresholds(d, very_short, short, medium, long) ==
  [d EXCEPT !.very_short_max = very_short, !.short_max = short,
            !.medium_max = medium, !.long_max = long]

\* BreathDetector.get_depth_color with an explicit duration
\* (variant: a duration on a boundary falls into the next category)
get_depth_color_strict(d, dur) ==
  IF dur < d.very_short_max THEN 0
  ELSE IF dur < d.short_max THEN 1
  ELSE IF dur < d.medium_max THEN 2
  ELSE IF dur < d.long_max THEN 3
  ELSE 4

get_depth_color(d, dur) ==
  IF dur <= d.very_short_max THEN 0
  ELSE IF dur <= d.short_max THEN 1
  ELSE IF dur <= d.medium_max THEN 2
  ELSE IF dur <= d.long_max THEN 3
  ELSE 4

\* tick, signal conditioner: fast/slow EMA, flow, derivative boost, low-pass
Condition(d, t) ==
  LET tf == Div((1000 - ALPHA_FAST) * d.t_fast + ALPHA_FAST * t, 1000)
      ts == Div((1000 - ALPHA_SLOW) * d.t_slow + ALPHA_SLOW * t, 1000)
      flow == -(tf - ts)
      dflow == (flow - d.prev_flow) * FS_HZ
      lp == Div((1000 - d.alpha_flow) * d.flow_lp
                + d.alpha_flow * (flow + Mul(dflow, d.deriv_gain)), 1000)
  IN [d EXCEPT !.t_fast = tf, !.t_slow = ts, !.prev_flow = flow, !.flow_lp = lp]

\* the scale update max((1 - EMA_MAG) * scale + EMA_MAG * peak, SCALE_FLOOR)
ScaleUpdateNoFloor(scale, peak) ==
  Div((1000 - EMA_MAG) * scale + EMA_MAG * peak, 1000)

ScaleUpdate(scale, peak) ==
  Max(Div((1000 - EMA_MAG) * scale + EMA_MAG * peak, 1000), SCALE_FLOOR)

\* (variant: a sub-step with a non-zero flow updates both sides with the
\* magnitude of the flow)
UpdateScalingBothSides(d) ==
  IF d.flow_lp # 0 THEN
    LET pe == Max(Mul(d.peak_ex, LEAK_DECAY), Abs(d.flow_lp))
        pi == Max(Mul(d.peak_in, LEAK_DECAY), Abs(d.flow_lp))
    IN [d EXCEPT !.peak_ex = pe, !.scale_ex = ScaleUpdate(d.scale_ex, pe),
                 !.peak_in = pi, !.scale_in = ScaleUpdate(d.scale_in, pi)]
  ELSE d

\* tick, adaptive normalizer: leaky peak hold and scale EMA per sign
UpdateScaling(d) ==
  IF d.flow_lp > 0 THEN
    LET pk == Max(Mul(d.peak_ex, LEAK_DECAY), d.flow_lp)
    IN [d EXCEPT !.peak_ex = pk, !.scale_ex = ScaleUpdate(d.scale_ex, pk)]
  ELSE IF d.flow_lp < 0 THEN
    LET pk == Max(Mul(d.peak_in, LEAK_DECAY), -d.flow_lp)
    IN [d EXCEPT !.peak_in = pk, !.scale_in = ScaleUpdate(d.scale_in, pk)]
  ELSE d

\* denom = max(1e-6, scale_ex if flow_lp >= 0 else scale_in)
Denom(d) == Max(EPS_DENOM, IF d.flow_lp >= 0 THEN d.scale_ex ELSE d.scale_in)

\* norm = flow_lp / denom
NormOf(d) == Div(d.flow_lp * 1000, Denom(d))

\* dnorm = (norm - prev_norm) / DT, per second
DnormOf(d, norm) == (norm - d.prev_norm) * FS_HZ

\* BreathDetector._record_exhale
\* (variant: the unworn flag is raised one short exhale late)
record_exhale_late(d, duration_s, now) ==
  IF duration_s <= d.artifact_short_max THEN
    [d EXCEPT !.short_streak = @ + 1,
              !.unworn = IF d.short_streak + 1 > d.unworn_streak_needed
                         THEN TRUE ELSE @,
              !.last_exhale_time = now, !.last_exhale_short = TRUE]
  ELSE
    [d EXCEPT !.last_exhale_time = now, !.last_exhale_short = FALSE,
              !.short_streak = 0,
              !.unworn = IF @ /\ duration_s >= d.worn_recovery_min
                         THEN FALSE ELSE @]

\* (variant: the short limit is the very-short depth threshold)
record_exhale_depth(d, duration_s, now) ==
  IF duration_s <= d.very_short_max THEN
    [d EXCEPT !.short_streak = @ + 1,
              !.unworn = IF d.short_streak + 1 >= d.unworn_streak_needed
                         THEN TRUE ELSE @,
              !.last_exhale_time = now, !.last_exhale_short = TRUE]
  ELSE
    [d EXCEPT !.last_exhale_time = now, !.last_exhale_short = FALSE,
              !.short_streak = 0,
              !.unworn = IF @ /\ duration_s >= d.worn_recovery_min
                         THEN FALSE ELSE @]

\* (variant: recovery needs an exhale strictly longer than worn_recovery_min)
record_exhale_strict(d, duration_s, now) ==
  IF duration_s <= d.artifact_short_max THEN
    [d EXCEPT !.short_streak = @ + 1,
              !.unworn = IF d.short_streak + 1 >= d.unworn_streak_needed
                         THEN TRUE ELSE @,
              !.last_exhale_time = now, !.last_exhale_short = TRUE]
  ELSE
    [d EXCEPT !.last_exhale_time = now, !.last_exhale_short = FALSE,
              !.short_streak = 0,
              !.unworn = IF @ /\ duration_s > d.worn_recovery_min
                         THEN FALSE ELSE @]

\* (variant: any normal exhale clears the unworn flag)
record_exhale_eager(d, duration_s, now) ==
  IF duration_s <= d.artifact_short_max THEN
    [d EXCEPT !.short_streak = @ + 1,
              !.unworn = IF d.short_streak + 1 >= d.unworn_streak_needed
                         THEN TRUE ELSE @,
              !.last_exhale_time = now, !.last_exhale_short = TRUE]
  ELSE
    [d EXCEPT !.last_exhale_time = now, !.last_exhale_short = FALSE,
              !.short_streak = 0, !.unworn = FALSE]

record_exhale(d, duration_s, now) ==
  IF duration_s <= d.artifact_short_max THEN
    [d EXCEPT !.short_streak = @ + 1,
              !.unworn = IF d.short_streak + 1 >= d.unworn_streak_needed
                         THEN TRUE ELSE @,
              !.last_exhale_time = now, !.last_exhale_short = TRUE]
  ELSE
    [d EXCEPT !.last_exhale_time = now, !.last_exhale_short = FALSE,
              !.short_streak = 0,
              !.unworn = IF @ /\ duration_s >= d.worn_recovery_min
                         THEN FALSE ELSE @]

\* ------------------------------------------------------ sequences
\* sum and max of q[lo..hi], by halving the range
RECURSIVE SumRange(_, _, _)
SumRange(q, lo, hi) ==
  IF lo > hi THEN 0
  ELSE IF lo = hi THEN q[lo]
  ELSE LET mid == (lo + hi) \div 2
       IN SumRange(q, lo, mid) + SumRange(q, mid + 1, hi)

RECURSIVE MaxRange(_, _, _)
MaxRange(q, lo, hi) ==
  IF lo = hi THEN q[lo]
  ELSE LET mid == (lo + hi) \div 2
           l == MaxRange(q, lo, mid)
           r == MaxRange(q, mid + 1, hi)
       IN IF l >= r THEN l ELSE r

SumSeq(q) == SumRange(q, 1, Len(q))

MaxSeq(q) == MaxRange(q, 1, Len(q))

\* a window that drops the entry just appended instead of the oldest one
PopBack(q, cap) == IF Len(q) > cap THEN SubSeq(q, 1, cap) ELSE q

\* list.pop(0) once the list is longer than cap
PopFront(q, cap) == IF Len(q) > cap THEN Tail(q) ELSE q

\* largest r with r * r <= n, by bisection on lo..hi
RECURSIVE IsqrtIter(_, _, _)
IsqrtIter(n, lo, hi) ==
  IF lo >= hi THEN lo
  ELSE LET mid == (lo + hi + 1) \div 2
       IN IF mid * mid <= n THEN IsqrtIter(n, mid, hi)
          ELSE IsqrtIter(n, lo, mid - 1)

\* math.sqrt on a non-negative value
Isqrt(n) == IsqrtIter(n, 0, Min(n, 46340))

\* (variant: only the upper limit is applied)
ClampFromAbove(lo, hi, x) == Min(hi, x)

\* max(lo, min(hi, x))
Clamp(lo, hi, x) == Max(lo, Min(hi, x))

\* int(round(x)) of a value in thousandths: nearest integer, ties to even
RoundInt(x) ==
  LET a == Abs(x)
      q == a \div 1000
      r == a % 1000
      n == IF r > 500 THEN q + 1
           ELSE IF r < 500 THEN q
           ELSE IF q % 2 = 0 THEN q ELSE q + 1
  IN IF x >= 0 THEN n ELSE -n

\* ---------------------------------------------------- mood_analyzer.py
STRESS_RATIO_ANXIOUS == 800
STRESS_RATIO_CALM == 1500
STRESS_RMSSD_CV_ANXIOUS == 400
STRESS_RMSSD_CV_CALM == 100
FOCUS_CONSISTENCY_CV_THRESHOLD == 150
\* 6.0 s and 10.0 s
MEDITATION_CYCLE_MIN == 1200
MEDITATION_CYCLE_OPTIMAL == 2000
MEDITATION_STABILITY_THRESHOLD == 150
CALIBRATION_BREATHS == 6

\* MoodAnalyzer.__init__
MoodInit ==
  [ breath_count |-> 0, is_calibrating |-> TRUE,
    calm_ratio |-> STRESS_RATIO_CALM,
    calm_variability_cv |-> STRESS_RMSSD_CV_CALM,
    focus_consistency_cv |-> FOCUS_CONSISTENCY_CV_THRESHOLD,
    calibration_breaths |-> CALIBRATION_BREATHS,
    recent_breaths |-> <<>>, max_recent |-> 5,
    last_breath_duration |-> None,
    successive_diffs |-> <<>>, max_diffs |-> 4,
    current_ratio |-> 1000, current_rmssd |-> Cs(100),
    current_consistency |-> Cs(50), current_cycle |-> Cs(400),
    stress_score |-> 0, focus_score |-> 5, meditation_score |-> 0 ]

\* MoodAnalyzer.set_thresholds
\* (variant: the calibration gate is evaluated again with the new count)
set_thresholds_regating(m, calm_ratio, calm_variability, focus_consistency, calibration_breaths) ==
  [m EXCEPT !.calm_ratio = calm_ratio,
            !.calm_variability_cv = calm_variability,
            !.focus_consistency_cv = focus_consistency,
            !.calibration_breaths = calibration_breaths,
            !.is_calibrating = m.breath_count < calibration_breaths]

set_thresholds(m, calm_ratio, calm_variability, focus_consistency, calibration_breaths) ==
  [m EXCEPT !.calm_ratio = calm_ratio,
            !.calm_variability_cv = calm_variability,
            !.focus_consistency_cv = focus_consistency,
            !.calibration_breaths = calibration_breaths]

\* the third component of each recent breath
Totals(m) == [i \in 1..Len(m.recent_breaths) |-> m.recent_breaths[i][3]]

\* MoodAnalyzer._update_metrics
update_metrics(m) ==
  IF m.recent_breaths = <<>> THEN m
  ELSE
    LET n == Len(m.recent_breaths)
        ratios == [i \in 1..n |->
                     Div(m.recent_breaths[i][1] * 1000,
                         Max(Cs(10), m.recent_breaths[i][2]))]
        nd == Len(m.successive_diffs)
        squared == [i \in 1..nd |-> m.successive_diffs[i] * m.successive_diffs[i]]
        durations == Totals(m)
        mean_dur == Div(SumSeq(durations), n)
        dev2 == [i \in 1..n |-> (durations[i] - mean_dur) * (durations[i] - mean_dur)]
    IN [m EXCEPT
          !.current_ratio = Div(SumSeq(ratios), n),
          !.current_rmssd = IF nd >= 2 THEN Isqrt(Div(SumSeq(squared), nd)) ELSE @,
          !.current_consistency = IF n >= 2 THEN Isqrt(Div(SumSeq(dev2), n)) ELSE @,
          !.current_cycle = mean_dur]

\* the session-relative duration component of the stress score
DurationScore(m) ==
  IF Len(m.recent_breaths) >= 3 THEN
    LET baseline == Div(SumSeq(Totals(m)), Len(m.recent_breaths))
        duration_ratio == Div(m.current_cycle * 1000, Max(Cs(10), baseline))
        duration_norm == (duration_ratio - 1000) * 5
    IN Clamp(-5000, 5000, -(duration_norm * 3))
  ELSE 0

\* MoodAnalyzer._compute_stress_score
compute_stress_score(m) ==
  LET ratio_range == m.calm_ratio - STRESS_RATIO_ANXIOUS
      ratio_norm == Div((m.current_ratio - STRESS_RATIO_ANXIOUS) * 1000,
                        Max(100, ratio_range))
      ratio_score == Clamp(-5000, 5000, 5000 - ratio_norm * 10)
      rmssd_cv == Div(m.current_rmssd * 1000, Max(Cs(10), m.current_cycle))
      rmssd_range == STRESS_RMSSD_CV_ANXIOUS - m.calm_variability_cv
      rmssd_norm == Div((rmssd_cv - m.calm_variability_cv) * 1000,
                        Max(10, rmssd_range))
      rmssd_score == Clamp(-5000, 5000, -5000 + rmssd_norm * 10)
      raw_stress == Div(500 * ratio_score + 250 * DurationScore(m)
                        + 250 * rmssd_score, 1000)
  IN [m EXCEPT !.stress_score = RoundInt(Clamp(-5000, 5000, raw_stress))]

\* MoodAnalyzer._compute_focus_score
compute_focus_score(m) ==
  LET cv == Div(m.current_consistency * 1000, Max(Cs(10), m.current_cycle))
      thresh == m.focus_consistency_cv
      focus ==
        IF 2 * cv < thresh THEN 9000 + Min(1000, (thresh - 2 * cv) * 10)
        ELSE IF cv < thresh THEN 6000 + (1000 - Div(cv * 1000, thresh)) * 3
        ELSE IF cv < thresh * 2 THEN
          3000 + (1000 - Div((cv - thresh) * 1000, thresh)) * 3
        ELSE Max(0, 3000 - (cv - thresh * 2) * 10)
  IN [m EXCEPT !.focus_score = RoundInt(Clamp(0, 10000, focus))]

\* MoodAnalyzer._compute_meditation_score
compute_meditation_score(m) ==
  IF Len(m.recent_breaths) < 3 THEN [m EXCEPT !.meditation_score = 0]
  ELSE
    LET cc == m.current_cycle
        cycle_score ==
          IF cc < MEDITATION_CYCLE_MIN THEN Div(cc * 4000, MEDITATION_CYCLE_MIN)
          ELSE IF cc < MEDITATION_CYCLE_OPTIMAL THEN
            4000 + Div((cc - MEDITATION_CYCLE_MIN) * 6000,
                       MEDITATION_CYCLE_OPTIMAL - MEDITATION_CYCLE_MIN)
          ELSE 10000
        cv == Div(m.current_consistency * 1000, Max(Cs(10), cc))
        th == MEDITATION_STABILITY_THRESHOLD
        stability_score ==
          IF cv < th THEN 10000
          ELSE IF cv < th * 2 THEN 10000 - Div((cv - th) * 1000, th) * 5
          ELSE Max(0, 5000 - (cv - th * 2) * 10)
        raw_med == Div(500 * cycle_score + 500 * stability_score, 1000)
    IN [m EXCEPT !.meditation_score = RoundInt(Clamp(0, 10000, raw_med))]

\* the validation at the head of end_exhale: the breath is plausible
ValidBreathNoUpper(exhale_duration, inhale_duration) ==
  ~(exhale_duration < Cs(30) \/ inhale_duration < Cs(20))

ValidBreath(exhale_duration, inhale_duration) ==
  /\ ~(exhale_duration < Cs(30) \/ inhale_duration < Cs(20))
  /\ ~(exhale_duration > Cs(1500) \/ inhale_duration > Cs(1000))

\* MoodAnalyzer.end_exhale
end_exhale(m, exhale_duration, inhale_duration, now) ==
  IF ~ValidBreath(exhale_duration, inhale_duration) THEN m
  ELSE
    LET total_duration == exhale_duration + inhale_duration
        m1 == [m EXCEPT
                 !.breath_count = @ + 1,
                 !.recent_breaths =
                    PopFront(Append(@, <<exhale_duration, inhale_duration,
                                         total_duration>>), m.max_recent),
                 !.successive_diffs =
                    IF m.last_breath_duration # None
                    THEN PopFront(Append(@, Abs(total_duration
                                                - m.last_breath_duration)),
                                  m.max_diffs)
                    ELSE @,
                 !.last_breath_duration = total_duration]
        m2 == compute_meditation_score(
                compute_focus_score(compute_stress_score(update_metrics(m1))))
    IN [m2 EXCEPT !.is_calibrating =
                     IF m2.breath_count >= m2.calibration_breaths
                     THEN FALSE ELSE @]

\* MoodAnalyzer.get_stress_score / get_focus_score / get_meditation_score:
\* an Optional result, <<>> for None and <<v>> for the value v
get_stress_score(m) == IF m.is_calibrating THEN <<>> ELSE <<m.stress_score>>
get_focus_score(m) == IF m.is_calibrating THEN <<>> ELSE <<m.focus_score>>
get_meditation_score(m) == IF m.is_calibrating THEN <<>> ELSE <<m.meditation_score>>
get_calibrating(m) == m.is_calibrating

\* ---------------------------------------------------- breath_metrics.py
\* BreathMetrics.__init__ (also the state BreathMetrics.reset assigns)
MetricsInit ==
  [ breath_count |-> 0, is_calibrating |-> TRUE,
    calibration_breaths |-> CALIBRATION_BREATHS,
    last_exhale_duration |-> 0, last_inhale_duration |-> 0,
    last_cycle_duration |-> 0,
    last_smoothness |-> 100, last_peak_flow |-> 0, last_symmetry |-> 50,
    exhale_samples |-> <<>>, max_samples |-> 50 ]

\* BreathMetrics.set_thresholds
bm_set_thresholds(b, calibration_breaths) ==
  [b EXCEPT !.calibration_breaths = calibration_breaths]

\* (variant: the reset also puts calibration_breaths back to its default)
bm_reset_to_defaults(b) ==
  [b EXCEPT !.breath_count = 0, !.is_calibrating = TRUE,
            !.calibration_breaths = CALIBRATION_BREATHS,
            !.last_exhale_duration = 0, !.last_inhale_duration = 0,
            !.last_cycle_duration = 0, !.last_smoothness = 100,
            !.last_peak_flow = 0, !.last_symmetry = 50,
            !.exhale_samples = <<>>]

\* BreathMetrics.reset
bm_reset(b) ==
  [b EXCEPT !.breath_count = 0, !.is_calibrating = TRUE,
            !.last_exhale_duration = 0, !.last_inhale_duration = 0,
            !.last_cycle_duration = 0, !.last_smoothness = 100,
            !.last_peak_flow = 0, !.last_symmetry = 50,
            !.exhale_samples = <<>>]

\* BreathMetrics.start_exhale
bm_start_exhale(b) == [b EXCEPT !.exhale_samples = <<>>]

\* BreathMetrics.record_sample
\* (variant: a sliding window, the oldest sample makes room)
bm_record_sample_sliding(b, flow_value) ==
  IF Len(b.exhale_samples) < b.max_samples
  THEN [b EXCEPT !.exhale_samples = Append(@, flow_value)]
  ELSE [b EXCEPT !.exhale_samples = Append(Tail(@), flow_value)]

bm_record_sample(b, flow_value) ==
  IF Len(b.exhale_samples) < b.max_samples
  THEN [b EXCEPT !.exhale_samples = Append(@, flow_value)]
  ELSE b

AbsSeq(q) == [i \in 1..Len(q) |-> Abs(q[i])]

\* BreathMetrics._compute_smoothness.  The two means are kept as exact
\* quotients: with n samples, sum_abs their summed magnitudes and sum_accel
\* the summed magnitudes of the second differences,
\*   mean_abs_flow < 0.05       is  sum_abs < 50 * n   (values in 1/1000),
\*   relative_accel             is  (sum_accel * n) / ((n - 2) * sum_abs),
\*   int(min(0.2, relative_accel) * 500)  is 100 when relative_accel >= 0.2
\*                              and the floor of 500 * relative_accel below.
\* (variant: six samples are enough)
compute_smoothness_from_six(samples) ==
  IF Len(samples) < 6 THEN 100
  ELSE
    LET n == Len(samples)
        sum_abs == SumSeq(AbsSeq(samples))
        first_deriv == [i \in 1..(n - 1) |-> samples[i + 1] - samples[i]]
        second_deriv == [i \in 1..(n - 2) |->
                           Abs(first_deriv[i + 1] - first_deriv[i])]
        sum_accel == SumSeq(second_deriv)
        penalty == IF 5 * sum_accel * n >= (n - 2) * sum_abs THEN 100
                   ELSE Div(500 * sum_accel * n, (n - 2) * sum_abs)
    IN IF sum_abs < 50 * n THEN 100
       ELSE Max(0, Min(100, 100 - penalty))

\* (variant: the score stops falling at a relative acceleration of 0.1)
compute_smoothness_half_range(samples) ==
  IF Len(samples) < 7 THEN 100
  ELSE
    LET n == Len(samples)
        sum_abs == SumSeq(AbsSeq(samples))
        first_deriv == [i \in 1..(n - 1) |-> samples[i + 1] - samples[i]]
        second_deriv == [i \in 1..(n - 2) |->
                           Abs(first_deriv[i + 1] - first_deriv[i])]
        sum_accel == SumSeq(second_deriv)
        penalty == IF 10 * sum_accel * n >= (n - 2) * sum_abs THEN 50
                   ELSE Div(500 * sum_accel * n, (n - 2) * sum_abs)
    IN IF sum_abs < 50 * n THEN 100
       ELSE Max(0, Min(100, 100 - penalty))

compute_smoothness(samples) ==
  IF Len(samples) < 7 THEN 100
  ELSE
    LET n == Len(samples)
        sum_abs == SumSeq(AbsSeq(samples))
        first_deriv == [i \in 1..(n - 1) |-> samples[i + 1] - samples[i]]
        second_deriv == [i \in 1..(n - 2) |->
                           Abs(first_deriv[i + 1] - first_deriv[i])]
        sum_accel == SumSeq(second_deriv)
        penalty == IF 5 * sum_accel * n >= (n - 2) * sum_abs THEN 100
                   ELSE Div(500 * sum_accel * n, (n - 2) * sum_abs)
    IN IF sum_abs < 50 * n THEN 100
       ELSE Max(0, Min(100, 100 - penalty))

\* BreathMetrics._compute_peak_flow
compute_peak_flow(samples) ==
  IF samples = <<>> THEN 0 ELSE MaxSeq(AbsSeq(samples))

\* abs_samples.index(max(abs_samples)), counted from 0
\* (variant: the last of several equal peaks)
PeakIdxLast(samples) ==
  LET a == AbsSeq(samples)
      mx == MaxSeq(a)
  IN (CHOOSE i \in 1..Len(a) :
        a[i] = mx /\ \A j \in (i + 1)..Len(a) : a[j] # mx) - 1

PeakIdx(samples) ==
  LET a == AbsSeq(samples)
      mx == MaxSeq(a)
  IN (CHOOSE i \in 1..Len(a) : a[i] = mx /\ \A j \in 1..(i - 1) : a[j] # mx) - 1

\* BreathMetrics._compute_symmetry
compute_symmetry(samples) ==
  IF Len(samples) < 3 THEN 50
  ELSE Max(0, Min(100, Div(PeakIdx(samples) * 100, Len(samples) - 1)))

\* BreathMetrics.end_exhale
bm_end_exhale(b, exhale_duration, inhale_duration, now) ==
  IF ~ValidBreath(exhale_duration, inhale_duration) THEN b
  ELSE
    [b EXCEPT
       !.last_exhale_duration = exhale_duration,
       !.last_inhale_duration = inhale_duration,
       !.last_cycle_duration = exhale_duration + inhale_duration,
       !.last_smoothness = compute_smoothness(b.exhale_samples),
       !.last_peak_flow = compute_peak_flow(b.exhale_samples),
       !.last_symmetry = compute_symmetry(b.exhale_samples),
       !.breath_count = @ + 1,
       !.is_calibrating = IF b.breath_count + 1 >= b.calibration_breaths
                          THEN FALSE ELSE @]

\* ------------------------------------------- breath_detector.py, tick
\* One pass of the catch-up loop works on a bundle: the detector d, its
\* collaborator (MoodAnalyzer in firmware/, BreathMetrics in
\* firmware_nasalclip/; the model carries both side by side), the locals
\* norm, dnorm and phase_age, and log, the calls and phase assignments the
\* pass has made so far, in program order.  Each log entry carries the values
\* of phase, t_phase_start, inhale_start_time, refrac_until and idle_hold_start
\* at that point.
Event(op, a, b, d) ==
  [ op |-> op, a |-> a, b |-> b, phase |-> d.phase,
    t_phase_start |-> d.t_phase_start,
    inhale_start_time |-> d.inhale_start_time,
    refrac_until |-> d.refrac_until,
    idle_hold_start |-> d.idle_hold_start ]

\* IDLE_HOLD_S * 1.5
IdleHoldNeeded == Div(IDLE_HOLD_S * 15, 10)
\* MIN_PHASE_S * 0.5
RefracLen == Div(MIN_PHASE_S * 5, 10)

\* (variant: the magnitude bound of a quiet sample is above every th_start)
QuietUpToHalf(norm, dnorm) == Abs(norm) <= 500 /\ Abs(dnorm) <= IDLE_SLOPE_FRAC

\* abs(norm) <= IDLE_MAG_FRAC and abs(dnorm) <= IDLE_SLOPE_FRAC
Quiet(norm, dnorm) == Abs(norm) <= IDLE_MAG_FRAC /\ Abs(dnorm) <= IDLE_SLOPE_FRAC

\* next_proc += DT, the filters, the scales, norm and dnorm, record_sample
\* while in Exhale, peak_val, phase_age
Front(d, mood, bm, now, t) ==
  LET d1 == UpdateScaling(Condition([d EXCEPT !.next_proc = @ + DT], t))
      norm == NormOf(d1)
      dnorm == DnormOf(d1, norm)
  IN [ d |-> [d1 EXCEPT !.prev_norm = norm, !.norm = norm,
                        !.peak_val = Max(@, Abs(norm))],
       mood |-> mood,
       bm |-> IF d1.phase = PH_EXH THEN bm_record_sample(bm, d1.flow_lp) ELSE bm,
       norm |-> norm, dnorm |-> dnorm,
       phase_age |-> now - d1.t_phase_start,
       log |-> <<>> ]

\* last_exhale_duration = now - exhale_start_time; _record_exhale(...)
RecordLeavingExhale(B, now) ==
  LET dur == now - B.d.exhale_start_time
      d1 == [B.d EXCEPT !.last_exhale_duration = dur]
  IN [B EXCEPT !.d = record_exhale(d1, dur, now),
               !.log = Append(@, Event("record_exhale", dur, 0, d1))]

\* mood.end_exhale(last_exhale_duration, last_inhale_duration, now)
FeedMood(B, now) ==
  LET ex == B.d.last_exhale_duration
      inh == B.d.last_inhale_duration
  IN [B EXCEPT !.mood = end_exhale(B.mood, ex, inh, now),
               !.bm = bm_end_exhale(B.bm, ex, inh, now),
               !.log = Append(@, Event("end_exhale", ex, inh, B.d))]

\* the idle check of one pass
IdleCheckKeepHold(B, now) ==
  LET d == B.d IN
  IF d.phase # PH_IDLE /\ Quiet(B.norm, B.dnorm) THEN
    LET hold == IF d.idle_hold_start = None THEN now ELSE d.idle_hold_start
        B1 == [B EXCEPT !.d.idle_hold_start = hold]
    IN IF (now - hold) >= IdleHoldNeeded /\ B.phase_age >= MIN_PHASE_S THEN
         LET B2 == IF d.phase = PH_EXH /\ d.exhale_start_time # None
                   THEN RecordLeavingExhale(B1, now) ELSE B1
         IN [B2 EXCEPT !.d.phase = PH_IDLE, !.d.t_phase_start = now,
                       !.d.peak_val = 0,
                       !.log = Append(@, Event("phase", d.phase, PH_IDLE, B2.d))]
       ELSE B1
  ELSE B

\* (variant: the refractory window also suspends the idle check)
IdleCheckOutsideRefractory(B, now) ==
  LET d == B.d IN
  IF now < d.refrac_until THEN B
  ELSE IF d.phase # PH_IDLE THEN
    IF Quiet(B.norm, B.dnorm) THEN
      LET hold == IF d.idle_hold_start = None THEN now ELSE d.idle_hold_start
          B1 == [B EXCEPT !.d.idle_hold_start = hold]
      IN IF (now - hold) >= IdleHoldNeeded /\ B.phase_age >= MIN_PHASE_S THEN
           LET B2 == IF d.phase = PH_EXH /\ d.exhale_start_time # None
                     THEN RecordLeavingExhale(B1, now) ELSE B1
           IN [B2 EXCEPT !.d.phase = PH_IDLE, !.d.t_phase_start = now,
                         !.d.peak_val = 0,
                         !.log = Append(@, Event("phase", d.phase, PH_IDLE, B2.d))]
         ELSE B1
    ELSE [B EXCEPT !.d.idle_hold_start = None]
  ELSE B

\* (variant: an inhale that ends in Idle is measured too)
IdleCheckMeasuringInhale(B, now) ==
  LET d == B.d IN
  IF d.phase # PH_IDLE THEN
    IF Quiet(B.norm, B.dnorm) THEN
      LET hold == IF d.idle_hold_start = None THEN now ELSE d.idle_hold_start
          B1 == [B EXCEPT !.d.idle_hold_start = hold]
      IN IF (now - hold) >= IdleHoldNeeded /\ B.phase_age >= MIN_PHASE_S THEN
           LET B2 == IF d.phase = PH_EXH /\ d.exhale_start_time # None
                     THEN RecordLeavingExhale(B1, now)
                     ELSE IF d.phase = PH_INH /\ d.inhale_start_time # None
                     THEN [B1 EXCEPT !.d.last_inhale_duration =
                                       now - d.inhale_start_time]
                     ELSE B1
           IN [B2 EXCEPT !.d.phase = PH_IDLE, !.d.t_phase_start = now,
                         !.d.peak_val = 0,
                         !.log = Append(@, Event("phase", d.phase, PH_IDLE, B2.d))]
         ELSE B1
    ELSE [B EXCEPT !.d.idle_hold_start = None]
  ELSE B

IdleCheck(B, now) ==
  LET d == B.d IN
  IF d.phase # PH_IDLE THEN
    IF Quiet(B.norm, B.dnorm) THEN
      LET hold == IF d.idle_hold_start = None THEN now ELSE d.idle_hold_start
          B1 == [B EXCEPT !.d.idle_hold_start = hold]
      IN IF (now - hold) >= IdleHoldNeeded /\ B.phase_age >= MIN_PHASE_S THEN
           LET B2 == IF d.phase = PH_EXH /\ d.exhale_start_time # None
                     THEN RecordLeavingExhale(B1, now) ELSE B1
           IN [B2 EXCEPT !.d.phase = PH_IDLE, !.d.t_phase_start = now,
                         !.d.peak_val = 0,
                         !.log = Append(@, Event("phase", d.phase, PH_IDLE, B2.d))]
         ELSE B1
    ELSE [B EXCEPT !.d.idle_hold_start = None]
  ELSE B

\* t_phase_start = now; peak_val = 0.0; idle_hold_start = None;
\* refrac_until = now + MIN_PHASE_S * 0.5
RestartPhaseTimersStale(d, now) == [d EXCEPT !.peak_val = 0, !.idle_hold_start = None]

\* (variant: the start of the phase is not restarted)
RestartPhaseTimersKeepStart(d, now) ==
  [d EXCEPT !.peak_val = 0, !.idle_hold_start = None,
            !.refrac_until = now + RefracLen]

\* (variant: the refractory window is twice the minimum dwell)
RestartPhaseTimersLongRefractory(d, now) ==
  [d EXCEPT !.t_phase_start = now, !.peak_val = 0, !.idle_hold_start = None,
            !.refrac_until = now + 2 * MIN_PHASE_S]

RestartPhaseTimers(d, now) ==
  [d EXCEPT !.t_phase_start = now, !.peak_val = 0, !.idle_hold_start = None,
            !.refrac_until = now + RefracLen]

\* the inhale-start branch
\* (variant: the phase and its timers are switched before the hand-off)
DetectInhaleSwitchFirst(B, now) ==
  LET d == B.d IN
  IF B.phase_age >= MIN_PHASE_S \/ d.phase = PH_IDLE THEN
    LET d1 == [RestartPhaseTimers([d EXCEPT !.phase = PH_INH], now)
                 EXCEPT !.inhale_start_time = now]
        B1 == [B EXCEPT !.d = d1,
                        !.log = Append(@, Event("phase", d.phase, PH_INH, d))]
    IN IF d.phase = PH_EXH /\ d.exhale_start_time # None
       THEN FeedMood(RecordLeavingExhale(B1, now), now) ELSE B1
  ELSE B

\* (variant: an exhale that ended in Idle is handed off when Inhale is
\* entered from Idle)
DetectInhaleHandOffFromIdle(B, now) ==
  LET d == B.d IN
  IF B.phase_age >= MIN_PHASE_S \/ d.phase = PH_IDLE THEN
    LET B1 == IF d.phase = PH_EXH /\ d.exhale_start_time # None
              THEN FeedMood(RecordLeavingExhale(B, now), now)
              ELSE IF d.phase = PH_IDLE /\ d.exhale_start_time # None
              THEN FeedMood(B, now)
              ELSE B
        d1 == [RestartPhaseTimers([B1.d EXCEPT !.phase = PH_INH], now)
                 EXCEPT !.inhale_start_time = now]
    IN [B1 EXCEPT !.d = d1,
                  !.log = Append(@, Event("phase", d.phase, PH_INH, B1.d))]
  ELSE B

DetectInhale(B, now) ==
  LET d == B.d IN
  IF B.phase_age >= MIN_PHASE_S \/ d.phase = PH_IDLE THEN
    LET B1 == IF d.phase = PH_EXH /\ d.exhale_start_time # None
              THEN FeedMood(RecordLeavingExhale(B, now), now) ELSE B
        d1 == [RestartPhaseTimers([B1.d EXCEPT !.phase = PH_INH], now)
                 EXCEPT !.inhale_start_time = now]
    IN [B1 EXCEPT !.d = d1,
                  !.log = Append(@, Event("phase", d.phase, PH_INH, B1.d))]
  ELSE B

\* the exhale-start branch
\* (variant: no minimum dwell in the source phase)
DetectExhaleNoDwell(B, now) ==
  LET d == B.d
      d0 == IF d.phase = PH_INH /\ d.inhale_start_time # None
            THEN [d EXCEPT !.last_inhale_duration = now - d.inhale_start_time]
            ELSE d
      d1 == [RestartPhaseTimers([d0 EXCEPT !.phase = PH_EXH], now)
               EXCEPT !.exhale_start_time = now]
  IN [B EXCEPT !.d = d1, !.bm = bm_start_exhale(B.bm),
               !.log = Append(@, Event("phase", d.phase, PH_EXH, d0))]

\* (variant: the start time of the exhale is not taken)
DetectExhaleNoStartTime(B, now) ==
  LET d == B.d IN
  IF B.phase_age >= MIN_PHASE_S \/ d.phase = PH_IDLE THEN
    LET d0 == IF d.phase = PH_INH /\ d.inhale_start_time # None
              THEN [d EXCEPT !.last_inhale_duration = now - d.inhale_start_time]
              ELSE d
        d1 == RestartPhaseTimers([d0 EXCEPT !.phase = PH_EXH], now)
    IN [B EXCEPT !.d = d1, !.bm = bm_start_exhale(B.bm),
                 !.log = Append(@, Event("phase", d.phase, PH_EXH, d0))]
  ELSE B

\* (variant: the inhale duration is taken whenever an inhale start is
\* known, whatever the phase being left)
DetectExhaleAnySource(B, now) ==
  LET d == B.d IN
  IF B.phase_age >= MIN_PHASE_S \/ d.phase = PH_IDLE THEN
    LET d0 == IF d.inhale_start_time # None
              THEN [d EXCEPT !.last_inhale_duration = now - d.inhale_start_time]
              ELSE d
        d1 == [RestartPhaseTimers([d0 EXCEPT !.phase = PH_EXH], now)
                 EXCEPT !.exhale_start_time = now]
    IN [B EXCEPT !.d = d1, !.bm = bm_start_exhale(B.bm),
                 !.log = Append(@, Event("phase", d.phase, PH_EXH, d0))]
  ELSE B

\* elif self.phase != PH_EXH and norm < -self.th_start: the body
DetectExhale(B, now) ==
  LET d == B.d IN
  IF B.phase_age >= MIN_PHASE_S \/ d.phase = PH_IDLE THEN
    LET d0 == IF d.phase = PH_INH /\ d.inhale_start_time # None
              THEN [d EXCEPT !.last_inhale_duration = now - d.inhale_start_time]
              ELSE d
        d1 == [RestartPhaseTimers([d0 EXCEPT !.phase = PH_EXH], now)
                 EXCEPT !.exhale_start_time = now]
    IN [B EXCEPT !.d = d1, !.bm = bm_start_exhale(B.bm),
                 !.log = Append(@, Event("phase", d.phase, PH_EXH, d0))]
  ELSE B

\* refractory period, then inhale start / exhale start
\* (variant: the phases start at th_end)
DetectPhaseAtEndThreshold(B, now) ==
  IF now < B.d.refrac_until THEN B
  ELSE IF B.d.phase # PH_INH /\ B.norm > B.d.th_end THEN DetectInhale(B, now)
  ELSE IF B.d.phase # PH_EXH /\ B.norm < -B.d.th_end THEN DetectExhale(B, now)
  ELSE B

DetectPhase(B, now) ==
  IF now < B.d.refrac_until THEN B
  ELSE IF B.d.phase # PH_INH /\ B.norm > B.d.th_start THEN DetectInhale(B, now)
  ELSE IF B.d.phase # PH_EXH /\ B.norm < -B.d.th_start THEN DetectExhale(B, now)
  ELSE B

\* the body of `while now >= self.next_proc`, for the reading t
LoopBody(d, mood, bm, now, t) ==
  DetectPhase(IdleCheck(Front(d, mood, bm, now, t), now), now)

\* the phase assignments in a log
PhaseEvents(log) == SelectSeq(log, LAMBDA e : e.op = "phase")

\* ---------------------------------------------------------------- bounds
\* how many tick() calls the caller makes
MaxTicks == 3
\* how many rare events a run has: a long pause before a tick() call, or a
\* setter call
MaxRare == 1
\* how many times the thermistor temperature changes
MaxSensorChanges == 2
\* the clock advance between two tick() calls, in clock units: half a sample
\* period, and 0.31 s (past the minimum dwell, and long enough for the
\* filters to settle after a change of the reading)
TickGaps == {1, Cs(30) + DT}
\* a pause just past the idle hold
LongGaps == {IdleHoldNeeded + DT}
\* what read_temp_c() can return, in thousandths of a degree
Readings == {-1000, 0, 10, 1000}
\* the preset ids the caller passes to apply_sensitivity
PresetIds == {0, 12}
\* the depth thresholds the caller passes to apply_color_thresholds
ColorThresholds == {<<Cs(150), Cs(300), Cs(450), Cs(600)>>}

\* ----------------------------------------------------------------- state
\* code.py: the modes, and the globals after the module has loaded
MODE_STANDBY == 0
MODE_OPEN == 1
MODE_GUIDED == 2
AppInit == [ current_mode |-> MODE_OPEN ]

VARIABLES
  d,            \* the BreathDetector
  mood,         \* its MoodAnalyzer (firmware/)
  bm,           \* its BreathMetrics (firmware_nasalclip/)
  ain,          \* the temperature read_temp_c() returns
  now,          \* time.monotonic()
  pc,           \* "caller": between calls; "loop": inside tick()'s while loop
  transition,   \* tick()'s local
  ret,          \* what the last tick() returned
  ev,           \* what the last step did (observation only)
  last_nonidle, \* clock value of the latest entry into Inhale or Exhale
  quiet_run,    \* clock value of the first of the quiet samples processed
                \* in a row in the current non-idle phase, None if none
  n_sensor, n_ticks, n_rare,
  n_calls,      \* direct calls of a collaborator's method made so far
  app           \* the module globals of code.py: current_mode

vars == <<d, mood, bm, ain, now, pc, transition, ret, ev, last_nonidle,
          quiet_run, n_sensor, n_ticks, n_rare, n_calls, app>>

NoEvent(kind) ==
  [ kind |-> kind, now |-> 0, norm |-> 0, dnorm |-> 0, phase_age |-> 0,
    log |-> <<>>, pre_phase |-> PH_IDLE, pre_hold |-> None,
    pre_exhale_start |-> None, pre_last_inhale |-> 0, pre_refrac |-> 0,
    pre_t_phase_start |-> 0, pre_inhale_start |-> None,
    prev_nonidle |-> None, steps |-> 0,
    last_change |-> 0, entry_phase |-> PH_IDLE, entry_t_phase_start |-> 0,
    entry_proc |-> 0, entry |-> <<>>, pre_samples |-> <<>> ]

\* an event outside the loop: phase and t_phase_start as they were before
\* it, and the clock value of the latest phase assignment so far
CallerEvent(kind) ==
  [NoEvent(kind) EXCEPT !.pre_phase = d.phase,
                        !.pre_t_phase_start = d.t_phase_start,
                        !.last_change = ev.last_change,
                        !.pre_samples = bm.exhale_samples]

Init ==
  /\ d = DetectorInit(0)
  /\ mood = MoodInit
  /\ bm = MetricsInit
  /\ ain = 0
  /\ now = 0
  /\ pc = "caller"
  /\ transition = FALSE
  /\ ret = FALSE
  /\ ev = NoEvent("init")
  /\ last_nonidle = None
  /\ quiet_run = None
  /\ n_sensor = 0
  /\ n_ticks = 0
  /\ n_rare = 0
  /\ n_calls = 0
  /\ app = AppInit

\* the thermistor warms or cools between two calls
SensorChange(v) ==
  /\ pc = "caller"
  /\ n_sensor < MaxSensorChanges
  /\ v # ain
  /\ ev.kind # "sensor"
  /\ ain' = v
  /\ n_sensor' = n_sensor + 1
  /\ ev' = CallerEvent("sensor")
  /\ app' = app
  /\ UNCHANGED <<d, mood, bm, now, pc, transition, ret, last_nonidle,
                 quiet_run, n_ticks, n_rare, n_calls>>

\* tick() is entered: now = time.monotonic(); transition = False
Tick(gap) ==
  /\ pc = "caller"
  /\ n_ticks < MaxTicks
  /\ gap \in LongGaps => n_rare < MaxRare
  /\ now' = now + gap
  /\ pc' = "loop"
  /\ transition' = FALSE
  /\ n_ticks' = n_ticks + 1
  /\ n_rare' = IF gap \in LongGaps THEN n_rare + 1 ELSE n_rare
  /\ ev' = [CallerEvent("tick") EXCEPT
               !.entry_phase = d.phase,
               !.entry_t_phase_start = d.t_phase_start,
               !.entry_proc = d.next_proc,
               !.entry = <<d, mood, bm>>]
  /\ app' = app
  /\ UNCHANGED <<d, mood, bm, ain, ret, last_nonidle, quiet_run, n_sensor,
                 n_calls>>

EntersNonIdle(log) ==
  \E i \in 1..Len(log) : log[i].op = "phase" /\ log[i].b # PH_IDLE

\* one pass of the while loop
\* (variant: transition tells of the latest pass only)
SubStepLatestPassOnly ==
  /\ pc = "loop"
  /\ now >= d.next_proc
  /\ \E B \in {LoopBody(d, mood, bm, now, ain)} :
        LET q == Quiet(B.norm, B.dnorm) IN
        /\ d' = B.d
        /\ mood' = B.mood
        /\ bm' = B.bm
        /\ transition' = (PhaseEvents(B.log) # <<>>)
        /\ ev' = [ kind |-> "substep", now |-> now, norm |-> B.norm,
                   dnorm |-> B.dnorm, phase_age |-> B.phase_age,
                   log |-> B.log, pre_phase |-> d.phase,
                   pre_hold |-> d.idle_hold_start,
                   pre_exhale_start |-> d.exhale_start_time,
                   pre_last_inhale |-> d.last_inhale_duration,
                   pre_refrac |-> d.refrac_until,
                   pre_t_phase_start |-> d.t_phase_start,
                   pre_inhale_start |-> d.inhale_start_time,
                   prev_nonidle |-> last_nonidle,
                   steps |-> IF ev.kind = "substep" THEN ev.steps + 1 ELSE 1,
                   last_change |-> IF PhaseEvents(B.log) # <<>> THEN now
                                   ELSE ev.last_change,
                   entry_phase |-> ev.entry_phase,
                   entry_t_phase_start |-> ev.entry_t_phase_start,
                   entry_proc |-> ev.entry_proc,
                   entry |-> <<>>,
                   pre_samples |-> bm.exhale_samples ]
        /\ last_nonidle' = IF EntersNonIdle(B.log) THEN now ELSE last_nonidle
        /\ quiet_run' =
             IF EntersNonIdle(B.log) THEN None
             ELSE IF d.phase = PH_IDLE THEN quiet_run
             ELSE IF ~q THEN None
             ELSE IF quiet_run = None THEN now ELSE quiet_run
  /\ app' = app
  /\ UNCHANGED <<ain, now, pc, ret, n_sensor, n_ticks, n_rare, n_calls>>

SubStep ==
  /\ pc = "loop"
  /\ now >= d.next_proc
  /\ \E B \in {LoopBody(d, mood, bm, now, ain)} :
        LET q == Quiet(B.norm, B.dnorm) IN
        /\ d' = B.d
        /\ mood' = B.mood
        /\ bm' = B.bm
        /\ transition' = (transition \/ PhaseEvents(B.log) # <<>>)
        /\ ev' = [ kind |-> "substep", now |-> now, norm |-> B.norm,
                   dnorm |-> B.dnorm, phase_age |-> B.phase_age,
                   log |-> B.log, pre_phase |-> d.phase,
                   pre_hold |-> d.idle_hold_start,
                   pre_exhale_start |-> d.exhale_start_time,
                   pre_last_inhale |-> d.last_inhale_duration,
                   pre_refrac |-> d.refrac_until,
                   pre_t_phase_start |-> d.t_phase_start,
                   pre_inhale_start |-> d.inhale_start_time,
                   prev_nonidle |-> last_nonidle,
                   steps |-> IF ev.kind = "substep" THEN ev.steps + 1 ELSE 1,
                   last_change |-> IF PhaseEvents(B.log) # <<>> THEN now
                                   ELSE ev.last_change,
                   entry_phase |-> ev.entry_phase,
                   entry_t_phase_start |-> ev.entry_t_phase_start,
                   entry_proc |-> ev.entry_proc,
                   entry |-> <<>>,
                   pre_samples |-> bm.exhale_samples ]
        /\ last_nonidle' = IF EntersNonIdle(B.log) THEN now ELSE last_nonidle
        /\ quiet_run' =
             IF EntersNonIdle(B.log) THEN None
             ELSE IF d.phase = PH_IDLE THEN quiet_run
             ELSE IF ~q THEN None
             ELSE IF quiet_run = None THEN now ELSE quiet_run
  /\ app' = app
  /\ UNCHANGED <<ain, now, pc, ret, n_sensor, n_ticks, n_rare, n_calls>>

\* the loop condition fails: return transition
\* (variant: an if in place of the while, the call may return after one pass)
TickReturnAfterOnePass ==
  /\ pc = "loop"
  /\ now < d.next_proc \/ ev.kind = "substep"
  /\ pc' = "caller"
  /\ ret' = transition
  /\ ev' = [CallerEvent("return") EXCEPT
               !.steps = IF ev.kind = "substep" THEN ev.steps ELSE 0,
               !.entry_phase = ev.entry_phase,
               !.entry_t_phase_start = ev.entry_t_phase_start,
               !.entry_proc = ev.entry_proc,
               !.entry = ev.entry]
  /\ app' = app
  /\ UNCHANGED <<d, mood, bm, ain, now, transition, last_nonidle, quiet_run,
                 n_sensor, n_ticks, n_rare, n_calls>>

TickReturn ==
  /\ pc = "loop"
  /\ now < d.next_proc
  /\ pc' = "caller"
  /\ ret' = transition
  /\ ev' = [CallerEvent("return") EXCEPT
               !.steps = IF ev.kind = "substep" THEN ev.steps ELSE 0,
               !.entry_phase = ev.entry_phase,
               !.entry_t_phase_start = ev.entry_t_phase_start,
               !.entry_proc = ev.entry_proc,
               !.entry = ev.entry]
  /\ app' = app
  /\ UNCHANGED <<d, mood, bm, ain, now, transition, last_nonidle, quiet_run,
                 n_sensor, n_ticks, n_rare, n_calls>>

\* the caller applies a sensitivity preset
ApplySensitivity(p) ==
  /\ pc = "caller"
  /\ n_rare < MaxRare
  /\ d' = apply_sensitivity(d, p)
  /\ n_rare' = n_rare + 1
  /\ ev' = CallerEvent("apply_sensitivity")
  /\ app' = app
  /\ UNCHANGED <<mood, bm, ain, now, pc, transition, ret, last_nonidle,
                 quiet_run, n_sensor, n_ticks, n_calls>>

\* the caller applies depth thresholds
ApplyColorThresholds(c) ==
  /\ pc = "caller"
  /\ n_rare < MaxRare
  /\ d' = apply_color_thresholds(d, c[1], c[2], c[3], c[4])
  /\ n_rare' = n_rare + 1
  /\ ev' = CallerEvent("apply_color_thresholds")
  /\ app' = app
  /\ UNCHANGED <<mood, bm, ain, now, pc, transition, ret, last_nonidle,
                 quiet_run, n_sensor, n_ticks, n_calls>>

Next ==
  \/ \E v \in Readings : SensorChange(v)
  \/ \E gap \in TickGaps \cup LongGaps : Tick(gap)
  \/ SubStep
  \/ TickReturn
  \/ \E p \in PresetIds : ApplySensitivity(p)
  \/ \E c \in ColorThresholds : ApplyColorThresholds(c)

Spec == Init /\ [][Next]_vars

\* ------------------------------------------- the scorer called directly
\* MoodAnalyzer / BreathMetrics driven through their public methods, with
\* arguments the detector does not produce in a short run.
\* how many valid breaths a run records
MaxBreaths == 6
\* how many flow samples an exhale collects
MaxSamples == 3
\* (exhale_duration, inhale_duration) pairs: the shortest and the longest
\* plausible breath, and one pair just outside each of the four limits
Breaths ==
  { <<Cs(30), Cs(20)>>, <<Cs(1500), Cs(1000)>>,
    <<Cs(29), Cs(300)>>, <<Cs(1501), Cs(300)>>,
    <<Cs(400), Cs(19)>>, <<Cs(400), Cs(1001)>> }
\* (calm_ratio, calm_variability, focus_consistency, calibration_breaths)
MoodThresholds ==
  { <<STRESS_RATIO_CALM, STRESS_RMSSD_CV_CALM, FOCUS_CONSISTENCY_CV_THRESHOLD, 2>>,
    <<1200, 150, 200, 8>>,
    \* a calm ratio below the anxious one, a calm variability above the
    \* anxious one and a zero focus threshold: both ranges are not positive
    <<0, 500, 0, 8>> }
\* the flow values record_sample receives
FlowSamples == {500}

\* what the scorer specification leaves alone
detector_vars ==
  <<d, ain, now, pc, transition, ret, last_nonidle, quiet_run, n_sensor,
    n_ticks, n_calls>>

\* the last call on the scorer: its name and arguments, the scorer state
\* before it, whether breath_count >= calibration_breaths has held in
\* some state so far, and every breath end_exhale has accepted so far, in
\* arrival order, as the tuple it appends to recent_breaths
MoodEvent(kind, a, b, reached) ==
  [ kind |-> kind, a |-> a, b |-> b, pre_mood |-> mood, pre_bm |-> bm,
    reached |-> reached,
    hist |-> IF kind = "init" THEN <<>>
             ELSE IF kind = "end_exhale" /\ ValidBreath(a, b)
                  THEN Append(ev.hist, <<a, b, a + b>>)
                  ELSE ev.hist ]

MoodSpecInit ==
  /\ d = DetectorInit(0)
  /\ mood = MoodInit
  /\ bm = MetricsInit
  /\ ain = 0
  /\ now = 0
  /\ pc = "caller"
  /\ transition = FALSE
  /\ ret = FALSE
  /\ ev = MoodEvent("init", 0, 0, FALSE)
  /\ last_nonidle = None
  /\ quiet_run = None
  /\ n_sensor = 0
  /\ n_ticks = 0
  /\ n_rare = 0
  /\ n_calls = 0
  /\ app = AppInit

\* mood.end_exhale(exhale_duration, inhale_duration, now)
EndExhale(br) ==
  /\ mood.breath_count < MaxBreaths
  /\ bm.breath_count < MaxBreaths
  /\ \E m \in {end_exhale(mood, br[1], br[2], now)} :
       /\ mood' = m
       /\ ev' = MoodEvent("end_exhale", br[1], br[2],
                          ev.reached \/ m.breath_count >= m.calibration_breaths)
  /\ bm' = bm_end_exhale(bm, br[1], br[2], now)
  /\ app' = app
  /\ UNCHANGED <<detector_vars, n_rare>>

\* mood.set_thresholds(...) from the settings command
SetThresholds(th) ==
  /\ n_rare < MaxRare
  /\ \E m \in {set_thresholds(mood, th[1], th[2], th[3], th[4])} :
       /\ mood' = m
       /\ ev' = MoodEvent("set_thresholds", th[4], 0,
                          ev.reached \/ m.breath_count >= m.calibration_breaths)
  /\ bm' = bm_set_thresholds(bm, th[4])
  /\ n_rare' = n_rare + 1
  /\ app' = app
  /\ UNCHANGED detector_vars

\* mood.start_exhale()
StartExhale ==
  /\ bm.exhale_samples # <<>>
  /\ bm' = bm_start_exhale(bm)
  /\ ev' = MoodEvent("start_exhale", 0, 0, ev.reached)
  /\ app' = app
  /\ UNCHANGED <<detector_vars, mood, n_rare>>

\* mood.record_sample(flow_lp)
RecordSample(v) ==
  /\ Len(bm.exhale_samples) < MaxSamples
  /\ bm' = bm_record_sample(bm, v)
  /\ ev' = MoodEvent("record_sample", v, 0, ev.reached)
  /\ app' = app
  /\ UNCHANGED <<detector_vars, mood, n_rare>>

MoodNext ==
  \/ \E br \in Breaths : EndExhale(br)
  \/ \E th \in MoodThresholds : SetThresholds(th)
  \/ StartExhale
  \/ \E v \in FlowSamples : RecordSample(v)

SpecMood == MoodSpecInit /\ [][MoodNext]_vars

\* ---------------------------------- the unworn recorder called directly
\* _record_exhale driven with one completed exhale after another.
\* how many exhales a run completes
MaxExhales == 8
\* their durations: the short limit 0.6 s and just above it, the recovery
\* length 1.5 s and just below it, and 1.8 s
Durations == {Cs(60), Cs(61), Cs(149), Cs(150), Cs(180)}

\* the last _record_exhale call: its duration and the one of the call before
\* it, the tracker before the call, and run: how many short exhales in a row
\* have been recorded since a state with short_streak = 0 and unworn = False
\* (None when the latest exhale is not part of such a row)
RecorderEvent(dur, run) ==
  [ kind |-> "record_exhale", dur |-> dur,
    prev_dur |-> IF ev.kind = "record_exhale" THEN ev.dur ELSE None,
    pre_streak |-> d.short_streak, pre_unworn |-> d.unworn, run |-> run ]

RecorderInit ==
  /\ d = DetectorInit(0)
  /\ mood = MoodInit
  /\ bm = MetricsInit
  /\ ain = 0
  /\ now = 0
  /\ pc = "caller"
  /\ transition = FALSE
  /\ ret = FALSE
  /\ ev = [ kind |-> "init", dur |-> None, prev_dur |-> None, pre_streak |-> 0,
            pre_unworn |-> FALSE, run |-> None ]
  /\ last_nonidle = None
  /\ quiet_run = None
  /\ n_sensor = 0
  /\ n_ticks = 0
  /\ n_rare = 0
  /\ n_calls = 0
  /\ app = AppInit

\* an exhale of the given duration ends: self._record_exhale(duration, now)
RecordExhale(dur) ==
  /\ n_calls < MaxExhales
  /\ now' = now + dur
  /\ d' = record_exhale(d, dur, now + dur)
  /\ n_calls' = n_calls + 1
  /\ ev' = RecorderEvent(dur,
              IF dur > d.artifact_short_max THEN None
              ELSE IF d.short_streak = 0 /\ ~d.unworn THEN 1
              ELSE IF ev.run # None THEN ev.run + 1
              ELSE None)
  /\ app' = app
  /\ UNCHANGED <<mood, bm, ain, pc, transition, ret, last_nonidle, quiet_run,
                 n_sensor, n_ticks, n_rare>>

RecorderNext == \E dur \in Durations : RecordExhale(dur)

SpecRecorder == RecorderInit /\ [][RecorderNext]_vars

\* BreathDetector.get_state
get_state(det, m) ==
  LET stress_score == get_stress_score(m)
      focus_score == get_focus_score(m)
      meditation_score == get_meditation_score(m)
  IN [ phase |-> det.phase,
       norm |-> det.norm,
       depth_color |-> get_depth_color(det, det.last_exhale_duration),
       exhale_duration |-> det.last_exhale_duration,
       unworn |-> det.unworn,
       stress_score |-> IF stress_score # <<>> THEN stress_score[1] ELSE -99,
       focus_score |-> IF focus_score # <<>> THEN focus_score[1] ELSE -1,
       meditation_score |-> IF meditation_score # <<>> THEN meditation_score[1]
                            ELSE -1,
       calibrating |-> get_calibrating(m) ]

\* ------------------------------- tick() driven by the normalized flow
\* The phase logic of tick() with the signal path in front of it replaced by
\* its output: every pass of a call receives the normalized flow v as norm.
\* The filters and scales are left alone; dnorm, prev_norm, peak_val,
\* record_sample and phase_age are computed as in the code.
NormFront(det, md, met, t, v) ==
  LET d1 == [det EXCEPT !.next_proc = @ + DT]
      dnorm == DnormOf(d1, v)
  IN [ d |-> [d1 EXCEPT !.prev_norm = v, !.norm = v,
                        !.peak_val = Max(@, Abs(v))],
       mood |-> md,
       bm |-> IF d1.phase = PH_EXH THEN bm_record_sample(met, d1.flow_lp) ELSE met,
       norm |-> v, dnorm |-> dnorm,
       phase_age |-> t - d1.t_phase_start,
       log |-> <<>> ]

NormLoopBody(det, md, met, t, v) ==
  DetectPhase(IdleCheck(NormFront(det, md, met, t, v), t), t)

\* The state of one tick() call: the objects, the local transition, the
\* number of passes made, and one record per pass that changed the phase.
CallStart(d0, mood0, bm0) ==
  [ d |-> d0, mood |-> mood0, bm |-> bm0, transition |-> FALSE, steps |-> 0,
    trans |-> <<>> ]

\* one pass of the while loop
\* (variant: every pass reads the clock for itself, one sample period
\* after the pass before it)
PassOnceOwnClock(R, t, v) ==
  LET B == NormLoopBody(R.d, R.mood, R.bm, t + R.steps * DT, v)
      changed == PhaseEvents(B.log) # <<>>
  IN [ d |-> B.d, mood |-> B.mood, bm |-> B.bm,
       transition |-> (R.transition \/ changed),
       steps |-> R.steps + 1,
       trans |-> IF changed
                 THEN Append(R.trans,
                        [ step |-> R.steps + 1, norm |-> B.norm,
                          dnorm |-> B.dnorm, pre |-> R.d, post |-> B.d,
                          pre_mood |-> R.mood, post_mood |-> B.mood,
                          pre_bm |-> R.bm, post_bm |-> B.bm,
                          log |-> B.log ])
                 ELSE R.trans ]

PassOnce(R, t, v) ==
  LET B == NormLoopBody(R.d, R.mood, R.bm, t, v)
      changed == PhaseEvents(B.log) # <<>>
  IN [ d |-> B.d, mood |-> B.mood, bm |-> B.bm,
       transition |-> (R.transition \/ changed),
       steps |-> R.steps + 1,
       trans |-> IF changed
                 THEN Append(R.trans,
                        [ step |-> R.steps + 1, norm |-> B.norm,
                          dnorm |-> B.dnorm, pre |-> R.d, post |-> B.d,
                          pre_mood |-> R.mood, post_mood |-> B.mood,
                          pre_bm |-> R.bm, post_bm |-> B.bm,
                          log |-> B.log ])
                 ELSE R.trans ]

\* how many passes are still owed when next_proc = np
Owed(np, t) == IF t >= np THEN Div(t - np, DT) + 1 ELSE 0

\* n passes of the while loop in a row, each at the same clock value
RECURSIVE Passes(_, _, _, _)
Passes(R, n, t, v) ==
  IF n = 0 THEN R
  ELSE IF n = 1 THEN PassOnce(R, t, v)
  ELSE LET H == Passes(R, n \div 2, t, v)
       IN IF t < H.d.next_proc THEN H
          ELSE Passes(H, n - (n \div 2), t, v)

\* while now >= self.next_proc: ...   Every pass advances next_proc by DT
\* and nothing else touches it, so the loop makes exactly the passes owed.
RunLoop(R, t, v) == Passes(R, Owed(R.d.next_proc, t), t, v)

\* how many tick() calls a run makes
MaxNormTicks == 3
\* the clock advance before a call: one sample period, the refractory
\* length, the minimum dwell, and (as a rare event) the idle hold
NormGaps == {DT, RefracLen, MIN_PHASE_S}
\* the normalized flow: around +/- th_start of the default preset, and rest
NormValues == {-301, -300, 0, 300, 301}

\* the last tick() call: the clock, the flow it was fed, the detector before
\* it, the passes made and the phase changes among them
NormEvent(kind, v, R) ==
  [ kind |-> kind, now |-> now', norm |-> v, pre |-> d, steps |-> R.steps,
    trans |-> R.trans ]

NormInit ==
  /\ d = DetectorInit(0)
  /\ mood = MoodInit
  /\ bm = MetricsInit
  /\ ain = 0
  /\ now = 0
  /\ pc = "caller"
  /\ transition = FALSE
  /\ ret = FALSE
  /\ ev = [ kind |-> "init", now |-> 0, norm |-> 0, pre |-> DetectorInit(0),
            steps |-> 0, trans |-> <<>> ]
  /\ last_nonidle = None
  /\ quiet_run = None
  /\ n_sensor = 0
  /\ n_ticks = 0
  /\ n_rare = 0
  /\ n_calls = 0
  /\ app = AppInit

\* one whole tick() call at clock value now + gap
NormTick(gap, v) ==
  /\ n_ticks < MaxNormTicks
  /\ gap \in LongGaps => n_rare < MaxRare
  /\ now' = now + gap
  /\ \E R \in {RunLoop(CallStart(d, mood, bm), now + gap, v)} :
       /\ d' = R.d
       /\ mood' = R.mood
       /\ bm' = R.bm
       /\ ret' = R.transition
       /\ ev' = NormEvent("tick", v, R)
  /\ n_ticks' = n_ticks + 1
  /\ n_rare' = IF gap \in LongGaps THEN n_rare + 1 ELSE n_rare
  /\ app' = app
  /\ UNCHANGED <<ain, pc, transition, last_nonidle, quiet_run, n_sensor,
                 n_calls>>

NormNext == \E gap \in NormGaps \cup LongGaps, v \in NormValues : NormTick(gap, v)

SpecNorm == NormInit /\ [][NormNext]_vars

\* ---------------------------------------------------------------------
\* Whole breath cycles: the same tick() calls on the normalized flow, over
\* fewer flow values and gaps and more calls, so that a run can go through
\* Inhale, fall back to Idle after the idle hold and start an exhale from
\* there.

\* how many tick() calls a run makes
MaxCycleTicks == 5
\* the clock advance before a call: the minimum dwell (and, as a rare
\* event, the idle hold)
CycleGaps == {MIN_PHASE_S}
\* the rare long advances: the idle hold, and more than the 10 s that
\* end_exhale accepts for an inhale
CycleLongGaps == LongGaps \cup {Cs(1000) + DT}
\* the normalized flow: beyond -th_start, at rest, beyond +th_start
CycleValues == {-301, 0, 301}

\* one whole tick() call at clock value now + gap
CycleTick(gap, v) ==
  /\ n_ticks < MaxCycleTicks
  /\ gap \in CycleLongGaps => n_rare < MaxRare
  /\ now' = now + gap
  /\ \E R \in {RunLoop(CallStart(d, mood, bm), now + gap, v)} :
       /\ d' = R.d
       /\ mood' = R.mood
       /\ bm' = R.bm
       /\ ret' = R.transition
       /\ ev' = NormEvent("tick", v, R)
  /\ n_ticks' = n_ticks + 1
  /\ n_rare' = IF gap \in CycleLongGaps THEN n_rare + 1 ELSE n_rare
  /\ app' = app
  /\ UNCHANGED <<ain, pc, transition, last_nonidle, quiet_run, n_sensor,
                 n_calls>>

CycleNext ==
  \E gap \in CycleGaps \cup CycleLongGaps, v \in CycleValues : CycleTick(gap, v)

SpecCycle == NormInit /\ [][CycleNext]_vars

\* ---------------------------------------------------------------------
\* A session as the device starts it: the detector is constructed, the
\* stored sensitivity preset is applied, and then tick() is called with a
\* normalized flow that is at the edge of the quiet band or beyond th_start
\* of every preset.

\* how many tick() calls a run makes
MaxHoldTicks == 3
\* the stored sensitivity: the least sensitive preset, the factory setting
\* and the most sensitive preset
HoldPresets == {0, 5, 9}
\* the clock advance before a call: the minimum dwell, and (as a rare
\* event) the idle hold
HoldGaps == {MIN_PHASE_S}
\* the normalized flow
HoldValues == {-451, 200, 451}

HoldInit ==
  /\ d \in { apply_sensitivity(DetectorInit(0), p) : p \in HoldPresets }
  /\ mood = MoodInit
  /\ bm = MetricsInit
  /\ ain = 0
  /\ now = 0
  /\ pc = "caller"
  /\ transition = FALSE
  /\ ret = FALSE
  /\ ev = [ kind |-> "init", now |-> 0, norm |-> 0, pre |-> d,
            steps |-> 0, trans |-> <<>> ]
  /\ last_nonidle = None
  /\ quiet_run = None
  /\ n_sensor = 0
  /\ n_ticks = 0
  /\ n_rare = 0
  /\ n_calls = 0
  /\ app = AppInit

\* while now >= self.next_proc: ... t = read_temp_c() ...   The sensor is
\* read anew in every pass: the first pass of the call sees v, the passes
\* after it see w.
RunLoopReading(R, t, v, w) ==
  LET n == Owed(R.d.next_proc, t)
  IN IF n = 0 THEN R
     ELSE LET F == PassOnce(R, t, v)
          IN Passes(F, n - 1, t, w)

\* one whole tick() call at clock value now + gap; a long gap and a flow
\* that changes during the call are the rare events
HoldTick(gap, v, w) ==
  /\ n_ticks < MaxHoldTicks
  /\ (gap \in LongGaps \/ w # v) => n_rare < MaxRare
  /\ now' = now + gap
  /\ \E R \in {RunLoopReading(CallStart(d, mood, bm), now + gap, v, w)} :
       /\ d' = R.d
       /\ mood' = R.mood
       /\ bm' = R.bm
       /\ ret' = R.transition
       /\ ev' = NormEvent("tick", w, R)
  /\ n_ticks' = n_ticks + 1
  /\ n_rare' = IF gap \in LongGaps \/ w # v THEN n_rare + 1 ELSE n_rare
  /\ app' = app
  /\ UNCHANGED <<ain, pc, transition, last_nonidle, quiet_run, n_sensor,
                 n_calls>>

HoldNext ==
  \E gap \in HoldGaps \cup LongGaps, v \in HoldValues, w \in HoldValues :
    HoldTick(gap, v, w)

SpecHold == HoldInit /\ [][HoldNext]_vars

\* ------------------------------- a rising normalized flow
\* The detector starts in Idle, with the default thresholds or a preset.
\* The normalized flow never falls: it rises from 0 to 2 * th_start, one
\* tick() per sample period, and is then held, for single sample periods or
\* (as a rare event) for seconds.
MaxRampTicks == 6
RampPresets == {0, 9}
RampLevels(th) == {0, th \div 2, th, th + 1, 2 * th}

RampStarts ==
  {DetectorInit(0)} \cup {apply_sensitivity(DetectorInit(0), p) : p \in RampPresets}

\* the run so far: every phase change with the call and the pass it happened
\* in, the first call whose flow was above th_start (0: none yet), and for
\* how many calls the flow has been held at the top
RampInit ==
  /\ d \in RampStarts
  /\ mood = MoodInit
  /\ bm = MetricsInit
  /\ ain = 0
  /\ now = 0
  /\ pc = "caller"
  /\ transition = FALSE
  /\ ret = FALSE
  /\ ev = [ kind |-> "init", changes |-> <<>>, first_above |-> 0, held |-> 0 ]
  /\ last_nonidle = None
  /\ quiet_run = None
  /\ n_sensor = 0
  /\ n_ticks = 0
  /\ n_rare = 0
  /\ n_calls = 0
  /\ app = AppInit

RampTick(gap, v) ==
  /\ n_ticks < MaxRampTicks
  /\ v >= d.norm
  /\ gap \in LongGaps => (n_rare < MaxRare /\ d.norm = 2 * d.th_start)
  /\ now' = now + gap
  /\ \E R \in {RunLoop(CallStart(d, mood, bm), now + gap, v)} :
       /\ d' = R.d
       /\ mood' = R.mood
       /\ bm' = R.bm
       /\ ret' = R.transition
       /\ ev' = [ kind |-> "tick",
                  changes |-> ev.changes \o
                    [ i \in 1..Len(R.trans) |->
                        [ call |-> n_ticks + 1, step |-> R.trans[i].step,
                          norm |-> v, log |-> PhaseEvents(R.trans[i].log) ] ],
                  first_above |-> IF ev.first_above = 0 /\ v > d.th_start
                                  THEN n_ticks + 1 ELSE ev.first_above,
                  held |-> IF d.norm = 2 * d.th_start THEN ev.held + 1 ELSE 0 ]
  /\ n_ticks' = n_ticks + 1
  /\ n_rare' = IF gap \in LongGaps THEN n_rare + 1 ELSE n_rare
  /\ app' = app
  /\ UNCHANGED <<ain, pc, transition, last_nonidle, quiet_run, n_sensor,
                 n_calls>>

RampNext ==
  \E gap \in {DT} \cup LongGaps, v \in RampLevels(d.th_start) : RampTick(gap, v)

SpecRamp == RampInit /\ [][RampNext]_vars

\* ------------------------------- BreathMetrics called directly
\* how many samples a run records in all, how many breaths it ends and how
\* often it resets the session
MaxMetricSamples == 7
MaxMetricBreaths == 2
MaxMetricResets == 1
\* the flow values record_sample receives: a strong exhale flow and a weak
\* flow the other way
MetricFlows == {-600, 100}
\* (exhale_duration, inhale_duration): a plausible and an implausible pair
MetricBreaths == { <<Cs(300), Cs(200)>>, <<Cs(29), Cs(300)>> }
\* calibration_breaths as the settings command passes it
MetricCalibrations == {2, 8}

\* the last call on the metrics, its arguments and the metrics before it
MetricsEvent(kind, a, b) == [ kind |-> kind, a |-> a, b |-> b, pre_bm |-> bm ]

MetricsSpecInit ==
  /\ d = DetectorInit(0)
  /\ mood = MoodInit
  /\ bm = MetricsInit
  /\ ain = 0
  /\ now = 0
  /\ pc = "caller"
  /\ transition = FALSE
  /\ ret = FALSE
  /\ ev = [ kind |-> "init", a |-> 0, b |-> 0, pre_bm |-> MetricsInit ]
  /\ last_nonidle = None
  /\ quiet_run = None
  /\ n_sensor = 0
  /\ n_ticks = 0
  /\ n_rare = 0
  /\ n_calls = 0
  /\ app = AppInit

\* metrics.record_sample(flow_lp)
MetricsRecordSample(v) ==
  /\ n_ticks < MaxMetricSamples
  /\ bm' = bm_record_sample(bm, v)
  /\ ev' = MetricsEvent("record_sample", v, 0)
  /\ n_ticks' = n_ticks + 1
  /\ app' = app
  /\ UNCHANGED <<d, mood, ain, now, pc, transition, ret, last_nonidle,
                 quiet_run, n_sensor, n_rare, n_calls>>

\* metrics.start_exhale()
MetricsStartExhale ==
  /\ bm.exhale_samples # <<>>
  /\ bm' = bm_start_exhale(bm)
  /\ ev' = MetricsEvent("start_exhale", 0, 0)
  /\ app' = app
  /\ UNCHANGED <<d, mood, ain, now, pc, transition, ret, last_nonidle,
                 quiet_run, n_sensor, n_ticks, n_rare, n_calls>>

\* metrics.end_exhale(exhale_duration, inhale_duration, now)
MetricsEndExhale(br) ==
  /\ n_sensor < MaxMetricBreaths
  /\ bm' = bm_end_exhale(bm, br[1], br[2], now)
  /\ ev' = MetricsEvent("end_exhale", br[1], br[2])
  /\ n_sensor' = n_sensor + 1
  /\ app' = app
  /\ UNCHANGED <<d, mood, ain, now, pc, transition, ret, last_nonidle,
                 quiet_run, n_ticks, n_rare, n_calls>>

\* metrics.set_thresholds(..., calibration_breaths)
MetricsSetThresholds(c) ==
  /\ n_rare < MaxRare
  /\ bm' = bm_set_thresholds(bm, c)
  /\ ev' = MetricsEvent("set_thresholds", c, 0)
  /\ n_rare' = n_rare + 1
  /\ app' = app
  /\ UNCHANGED <<d, mood, ain, now, pc, transition, ret, last_nonidle,
                 quiet_run, n_sensor, n_ticks, n_calls>>

\* metrics.reset()
MetricsReset ==
  /\ n_calls < MaxMetricResets
  /\ bm' = bm_reset(bm)
  /\ ev' = MetricsEvent("reset", 0, 0)
  /\ n_calls' = n_calls + 1
  /\ app' = app
  /\ UNCHANGED <<d, mood, ain, now, pc, transition, ret, last_nonidle,
                 quiet_run, n_sensor, n_ticks, n_rare>>

MetricsNext ==
  \/ \E v \in MetricFlows : MetricsRecordSample(v)
  \/ MetricsStartExhale
  \/ \E br \in MetricBreaths : MetricsEndExhale(br)
  \/ \E c \in MetricCalibrations : MetricsSetThresholds(c)
  \/ MetricsReset

SpecMetrics == MetricsSpecInit /\ [][MetricsNext]_vars

\* ---------------------------------------------------------------------
\* The shape of one exhale: the metrics are fed a flow that starts at one
\* of a few levels and moves by one of a few steps from sample to sample,
\* so that steady ramps, kinks, zigzags and near-zero flows all occur.

\* how many samples a run records
MaxSmoothSamples == 7
\* the first sample of an exhale: no flow, 0.01 and 0.3
SmoothStarts == {0, 10, 300}
\* the change from one sample to the next
SmoothSteps == {-100, 0, 30, 100}
\* the plausible breath the exhale ends with
SmoothBreath == <<Cs(300), Cs(200)>>

\* metrics.record_sample(flow_lp), the first sample of an exhale
SmoothRecordFirst(v) ==
  /\ n_ticks < MaxSmoothSamples
  /\ bm.exhale_samples = <<>>
  /\ bm' = bm_record_sample(bm, v)
  /\ ev' = MetricsEvent("record_sample", v, 0)
  /\ n_ticks' = n_ticks + 1
  /\ app' = app
  /\ UNCHANGED <<d, mood, ain, now, pc, transition, ret, last_nonidle,
                 quiet_run, n_sensor, n_rare, n_calls>>

\* metrics.record_sample(flow_lp), a later sample
SmoothRecordNext(step) ==
  /\ n_ticks < MaxSmoothSamples
  /\ bm.exhale_samples # <<>>
  /\ ev.kind = "record_sample"
  /\ \E v \in {bm.exhale_samples[Len(bm.exhale_samples)] + step} :
       /\ bm' = bm_record_sample(bm, v)
       /\ ev' = MetricsEvent("record_sample", v, 0)
  /\ n_ticks' = n_ticks + 1
  /\ app' = app
  /\ UNCHANGED <<d, mood, ain, now, pc, transition, ret, last_nonidle,
                 quiet_run, n_sensor, n_rare, n_calls>>

\* metrics.end_exhale(...) when the detector leaves Exhale
SmoothEndExhale ==
  /\ ev.kind = "record_sample"
  /\ bm' = bm_end_exhale(bm, SmoothBreath[1], SmoothBreath[2], now)
  /\ ev' = MetricsEvent("end_exhale", SmoothBreath[1], SmoothBreath[2])
  /\ app' = app
  /\ UNCHANGED <<d, mood, ain, now, pc, transition, ret, last_nonidle,
                 quiet_run, n_sensor, n_ticks, n_rare, n_calls>>

\* metrics.start_exhale() when the detector enters the next Exhale
SmoothStartExhale ==
  /\ ev.kind = "end_exhale"
  /\ bm' = bm_start_exhale(bm)
  /\ ev' = MetricsEvent("start_exhale", 0, 0)
  /\ app' = app
  /\ UNCHANGED <<d, mood, ain, now, pc, transition, ret, last_nonidle,
                 quiet_run, n_sensor, n_ticks, n_rare, n_calls>>

SmoothNext ==
  \/ \E v \in SmoothStarts : SmoothRecordFirst(v)
  \/ \E step \in SmoothSteps : SmoothRecordNext(step)
  \/ SmoothEndExhale
  \/ SmoothStartExhale

SpecSmooth == MetricsSpecInit /\ [][SmoothNext]_vars

\* ------------------------------- depth thresholds and depth category
\* how many tick() calls, and how many calls of apply_color_thresholds and
\* get_depth_color, a run makes
MaxColorTicks == 2
MaxColorCalls == 2
\* the four boundaries passed: rising, not in order, all equal
ColorMenu ==
  { <<Cs(150), Cs(300), Cs(450), Cs(600)>>,
    <<Cs(300), Cs(150), Cs(450), Cs(150)>>,
    <<Cs(300), Cs(300), Cs(300), Cs(300)>> }
\* the durations asked about (None: no argument, the last exhale is used)
DurationMenu ==
  { None, 0, Cs(150), Cs(150) + 1, Cs(200), Cs(300), Cs(300) + 1, Cs(450),
    Cs(600), Cs(600) + 1, Cs(650), Cs(650) + 1 }
\* the flow and the clock advance of the tick() calls in between
ColorFlows == {-301, 301}
ColorGaps == {DT, MIN_PHASE_S}

\* dur = exhale_duration if exhale_duration is not None
\*       else self.last_exhale_duration
DepthArgument(det, exhale_duration) ==
  IF exhale_duration # None THEN exhale_duration ELSE det.last_exhale_duration

\* the last call, the detector before it, and the boundaries passed by the
\* latest apply_color_thresholds call (those of construction before it)
ColorEvent(kind, arg, result, latest) ==
  [ kind |-> kind, arg |-> arg, result |-> result, latest |-> latest,
    pre |-> d, pre_mood |-> mood, pre_bm |-> bm ]

ColorInit ==
  /\ d = DetectorInit(0)
  /\ mood = MoodInit
  /\ bm = MetricsInit
  /\ ain = 0
  /\ now = 0
  /\ pc = "caller"
  /\ transition = FALSE
  /\ ret = FALSE
  /\ ev = [ kind |-> "init", arg |-> None, result |-> None,
            latest |-> <<DEFAULT_VERY_SHORT_MAX, DEFAULT_SHORT_MAX,
                         DEFAULT_MEDIUM_MAX, DEFAULT_LONG_MAX>>,
            pre |-> DetectorInit(0), pre_mood |-> MoodInit,
            pre_bm |-> MetricsInit ]
  /\ last_nonidle = None
  /\ quiet_run = None
  /\ n_sensor = 0
  /\ n_ticks = 0
  /\ n_rare = 0
  /\ n_calls = 0
  /\ app = AppInit

ColorTick(gap, v) ==
  /\ n_ticks < MaxColorTicks
  /\ now' = now + gap
  /\ \E R \in {RunLoop(CallStart(d, mood, bm), now + gap, v)} :
       /\ d' = R.d
       /\ mood' = R.mood
       /\ bm' = R.bm
       /\ ret' = R.transition
  /\ ev' = ColorEvent("tick", None, None, ev.latest)
  /\ n_ticks' = n_ticks + 1
  /\ app' = app
  /\ UNCHANGED <<ain, pc, transition, last_nonidle, quiet_run, n_sensor,
                 n_rare, n_calls>>

\* det.apply_color_thresholds(vs, s, m, l)
ApplyColors(c) ==
  /\ n_calls < MaxColorCalls
  /\ d' = apply_color_thresholds(d, c[1], c[2], c[3], c[4])
  /\ ev' = ColorEvent("apply_color_thresholds", c, None, c)
  /\ n_calls' = n_calls + 1
  /\ app' = app
  /\ UNCHANGED <<mood, bm, ain, now, pc, transition, ret, last_nonidle,
                 quiet_run, n_sensor, n_ticks, n_rare>>

\* det.get_depth_color(exhale_duration), det.get_depth_color()
GetDepthColor(exhale_duration) ==
  /\ n_calls < MaxColorCalls
  /\ ev' = ColorEvent("get_depth_color", DepthArgument(d, exhale_duration),
                      get_depth_color(d, DepthArgument(d, exhale_duration)),
                      ev.latest)
  /\ n_calls' = n_calls + 1
  /\ app' = app
  /\ UNCHANGED <<d, mood, bm, ain, now, pc, transition, ret, last_nonidle,
                 quiet_run, n_sensor, n_ticks, n_rare>>

ColorNext ==
  \/ \E gap \in ColorGaps, v \in ColorFlows : ColorTick(gap, v)
  \/ \E c \in ColorMenu : ApplyColors(c)
  \/ \E q \in DurationMenu : GetDepthColor(q)

SpecColor == ColorInit /\ [][ColorNext]_vars

\* ------------------------------- presets applied between tick() calls
\* one pass of the while loop with the signal path, for the reading t_c
SensorPass(R, t, t_c) ==
  LET B == LoopBody(R.d, R.mood, R.bm, t, t_c)
  IN [R EXCEPT !.d = B.d, !.mood = B.mood, !.bm = B.bm,
               !.transition = (@ \/ PhaseEvents(B.log) # <<>>),
               !.steps = @ + 1]

RECURSIVE SensorPasses(_, _, _, _)
SensorPasses(R, n, t, t_c) ==
  IF n = 0 THEN R
  ELSE IF n = 1 THEN SensorPass(R, t, t_c)
  ELSE LET H == SensorPasses(R, n \div 2, t, t_c)
       IN IF t < H.d.next_proc THEN H
          ELSE SensorPasses(H, n - (n \div 2), t, t_c)

\* a whole tick() call at clock value t while read_temp_c() returns t_c
RunSensorLoop(R, t, t_c) == SensorPasses(R, Owed(R.d.next_proc, t), t, t_c)

\* how many tick() calls and how many apply_sensitivity calls a run makes
MaxPresetTicks == 2
MaxPresetCalls == 2
\* the preset ids passed: below, at both ends of, inside and above 0..9
PresetMenu == {-3, -1, 0, 4, 9, 10, 12}

\* the last call: for apply_sensitivity its argument, the index it used and
\* the detector before it; and the same for the call before the last
PresetEvent(kind, p) ==
  [ kind |-> kind, p |-> p, index |-> ClampPreset(p), pre |-> d,
    pre_mood |-> mood, pre_bm |-> bm,
    prev_kind |-> ev.kind, prev_p |-> ev.p, prev_pre |-> ev.pre ]

PresetInit ==
  /\ d = DetectorInit(0)
  /\ mood = MoodInit
  /\ bm = MetricsInit
  /\ ain = 0
  /\ now = 0
  /\ pc = "caller"
  /\ transition = FALSE
  /\ ret = FALSE
  /\ ev = [ kind |-> "init", p |-> 0, index |-> 0, pre |-> DetectorInit(0),
            pre_mood |-> MoodInit, pre_bm |-> MetricsInit,
            prev_kind |-> "init", prev_p |-> 0, prev_pre |-> DetectorInit(0) ]
  /\ last_nonidle = None
  /\ quiet_run = None
  /\ n_sensor = 0
  /\ n_ticks = 0
  /\ n_rare = 0
  /\ n_calls = 0
  /\ app = AppInit

\* the sensor takes the value t_c and tick() is called
PresetTick(gap, t_c) ==
  /\ n_ticks < MaxPresetTicks
  /\ now' = now + gap
  /\ ain' = t_c
  /\ \E R \in {RunSensorLoop(CallStart(d, mood, bm), now + gap, t_c)} :
       /\ d' = R.d
       /\ mood' = R.mood
       /\ bm' = R.bm
       /\ ret' = R.transition
  /\ ev' = PresetEvent("tick", 0)
  /\ n_ticks' = n_ticks + 1
  /\ app' = app
  /\ UNCHANGED <<pc, transition, last_nonidle, quiet_run, n_sensor, n_rare,
                 n_calls>>

\* det.apply_sensitivity(p)
ApplyPreset(p) ==
  /\ n_calls < MaxPresetCalls
  /\ d' = apply_sensitivity(d, p)
  /\ ev' = PresetEvent("apply_sensitivity", p)
  /\ n_calls' = n_calls + 1
  /\ app' = app
  /\ UNCHANGED <<mood, bm, ain, now, pc, transition, ret, last_nonidle,
                 quiet_run, n_sensor, n_ticks, n_rare>>

PresetNext ==
  \/ \E gap \in TickGaps, t_c \in Readings : PresetTick(gap, t_c)
  \/ \E p \in PresetMenu : ApplyPreset(p)

SpecPreset == PresetInit /\ [][PresetNext]_vars

\* ---------------------------------------------------------------------
\* code.py, the commands received from the app.  A line is the tuple of its
\* comma-separated fields, a batch the lines of one uart.read().

\* parse_message(msg) for the mode commands and the mood settings command:
\* the globals and the scorer after the call, and whether the call raised.
\* In the branch for "M,F" the statement after the assignment of
\* current_mode is `det.mood.reset()`: code.py binds the detector to the name
\* `detector`, never to `det`, and MoodAnalyzer defines no reset method, so
\* evaluating the statement raises (NameError) before anything is reset.
parse_message(msg, a, md) ==
  IF Len(msg) >= 2 /\ msg[1] = "M" THEN
    IF msg[2] = "F" THEN
      [ app |-> [a EXCEPT !.current_mode = MODE_OPEN], mood |-> md,
        raised |-> TRUE ]
    ELSE IF msg[2] = "G" THEN
      [ app |-> [a EXCEPT !.current_mode = MODE_GUIDED], mood |-> md,
        raised |-> FALSE ]
    ELSE IF msg[2] = "O" THEN
      [ app |-> [a EXCEPT !.current_mode = MODE_STANDBY], mood |-> md,
        raised |-> FALSE ]
    ELSE [ app |-> a, mood |-> md, raised |-> FALSE ]
  ELSE IF Len(msg) >= 6 /\ msg[1] = "S" /\ msg[2] = "M" THEN
    [ app |-> a, mood |-> set_thresholds(md, msg[3], msg[4], msg[5], msg[6]),
      raised |-> FALSE ]
  ELSE [ app |-> a, mood |-> md, raised |-> FALSE ]

\* handle_rx: `for line in msg.split("\n"): parse_message(line)` inside
\* try / except Exception, from line i of the batch on.  An exception leaves
\* the loop; the handler logs it and returns.
RECURSIVE ParseLines(_, _, _)
ParseLines(R, batch, i) ==
  IF i > Len(batch) THEN R
  ELSE LET P == parse_message(batch[i], R.app, R.mood)
       IN IF P.raised
          THEN [ app |-> P.app, mood |-> P.mood, parsed |-> R.parsed,
                 raised |-> TRUE ]
          ELSE ParseLines([ app |-> P.app, mood |-> P.mood,
                            parsed |-> R.parsed + 1, raised |-> FALSE ],
                          batch, i + 1)

handle_rx(batch, a, md) ==
  ParseLines([ app |-> a, mood |-> md, parsed |-> 0, raised |-> FALSE ],
             batch, 1)

\* how many batches a run receives, and how many breaths it completes
MaxRxBatches == 2
MaxRxBreaths == 3
\* the lines the app sends: the three mode commands and mood settings with
\* calibration over 2 breaths
RxLines ==
  { <<"M", "F">>, <<"M", "G">>, <<"M", "O">>,
    <<"S", "M", STRESS_RATIO_CALM, 500, 500, 2>> }
\* a batch holds one or two lines
RxBatches == { <<l>> : l \in RxLines } \cup { <<l, m>> : l \in RxLines, m \in RxLines }
\* the breaths completed in between: a plausible one
RxBreaths == { <<Cs(300), Cs(200)>> }

\* the last call: for handle_rx the batch, how many of its lines
\* parse_message has returned from, and whether it raised; the scorer and
\* the globals before the call
RxEvent(kind, batch, parsed, raised) ==
  [ kind |-> kind, batch |-> batch, parsed |-> parsed, raised |-> raised,
    pre_mood |-> mood, pre_app |-> app ]

RxInit ==
  /\ d = DetectorInit(0)
  /\ mood = MoodInit
  /\ bm = MetricsInit
  /\ ain = 0
  /\ now = 0
  /\ pc = "caller"
  /\ transition = FALSE
  /\ ret = FALSE
  /\ ev = [ kind |-> "init", batch |-> <<>>, parsed |-> 0, raised |-> FALSE,
            pre_mood |-> MoodInit, pre_app |-> AppInit ]
  /\ last_nonidle = None
  /\ quiet_run = None
  /\ n_sensor = 0
  /\ n_ticks = 0
  /\ n_rare = 0
  /\ n_calls = 0
  /\ app = AppInit

\* handle_rx() with a batch waiting
HandleRx(batch) ==
  /\ n_calls < MaxRxBatches
  /\ \E R \in {handle_rx(batch, app, mood)} :
       /\ app' = R.app
       /\ mood' = R.mood
       /\ ev' = RxEvent("rx", batch, R.parsed, R.raised)
  /\ n_calls' = n_calls + 1
  /\ UNCHANGED <<d, bm, ain, now, pc, transition, ret, last_nonidle,
                 quiet_run, n_sensor, n_ticks, n_rare>>

\* a breath is completed between two batches: mood.end_exhale(...)
RxEndExhale(br) ==
  /\ n_sensor < MaxRxBreaths
  /\ mood' = end_exhale(mood, br[1], br[2], now)
  /\ ev' = RxEvent("end_exhale", <<>>, 0, FALSE)
  /\ n_sensor' = n_sensor + 1
  /\ UNCHANGED <<d, bm, ain, now, pc, transition, ret, last_nonidle,
                 quiet_run, n_ticks, n_rare, n_calls, app>>

RxNext ==
  \/ \E batch \in RxBatches : HandleRx(batch)
  \/ \E br \in RxBreaths : RxEndExhale(br)

SpecRx == RxInit /\ [][RxNext]_vars

\* ------------------------------------------------------------ properties
\* C1: in every reachable state both adaptive scales are at least
\* SCALE_FLOOR, and so is the divisor the latest sub-step used for norm.
C1_ScalesAtLeastFloor ==
  /\ d.scale_ex >= SCALE_FLOOR
  /\ d.scale_in >= SCALE_FLOOR
  /\ Denom(d) >= SCALE_FLOOR

\* a sub-step has divided a negative flow by an inhale scale that the floor
\* is holding up
C1_FloorBinds ==
  /\ ev.kind = "substep"
  /\ d.flow_lp < 0
  /\ d.scale_in = SCALE_FLOOR
  /\ d.peak_in < SCALE_FLOOR

\* C2: a transition into Inhale or into Exhale never occurs earlier than
\* MIN_PHASE_S * 0.5 after the most recent earlier transition into Inhale or
\* Exhale, further sub-steps of the same catch-up loop included.
C2_RefractoryRespected ==
  (ev.kind = "substep" /\ EntersNonIdle(ev.log) /\ ev.prev_nonidle # None)
    => ev.now >= ev.prev_nonidle + RefracLen

\* a sub-step has entered Inhale or Exhale after an earlier such entry
C2_SecondEntry ==
  /\ ev.kind = "substep"
  /\ EntersNonIdle(ev.log)
  /\ ev.prev_nonidle # None
  /\ last_nonidle = ev.now

\* the entries into Idle in a log
IdleEntries(log) == SelectSeq(log, LAMBDA e : e.op = "phase" /\ e.b = PH_IDLE)

\* C3: Idle is entered only in a sub-step where idle_hold_start is non-null
\* and now - idle_hold_start >= 1.5 * IDLE_HOLD_S; idle_hold_start is the time
\* of the first of the quiet samples processed in a row in the current
\* non-idle phase; and while the phase is non-idle a sample violating either
\* bound sets idle_hold_start to null.
C3_IdleOnlyAfterHold ==
  /\ d.idle_hold_start = quiet_run
  /\ ev.kind = "substep" =>
       /\ \A i \in 1..Len(ev.log) :
            (ev.log[i].op = "phase" /\ ev.log[i].b = PH_IDLE) =>
              /\ ev.log[i].idle_hold_start # None
              /\ ev.now - ev.log[i].idle_hold_start >= Div(IDLE_HOLD_S * 15, 10)
              /\ Quiet(ev.norm, ev.dnorm)
       /\ (ev.pre_phase # PH_IDLE /\ ~Quiet(ev.norm, ev.dnorm)) =>
            d.idle_hold_start = None

\* a sub-step has entered Idle
C3_IdleEntered ==
  /\ ev.kind = "substep"
  /\ IdleEntries(ev.log) # <<>>
  /\ d.phase = PH_IDLE
  /\ d.idle_hold_start # None

\* C4: a call end_exhale(exhale_duration, inhale_duration, now) with
\* exhale_duration < 0.3 or > 15.0, or inhale_duration < 0.2 or > 10.0,
\* leaves the whole state of the scorer (MoodAnalyzer) and of the metrics
\* (BreathMetrics) as it was before the call.
C4_ImplausibleBreathIgnored ==
  (ev.kind = "end_exhale"
     /\ (ev.a < Cs(30) \/ ev.a > Cs(1500) \/ ev.b < Cs(20) \/ ev.b > Cs(1000)))
    => (mood = ev.pre_mood /\ bm = ev.pre_bm)

\* end_exhale has been called with an exhale over 15 s on a scorer that has
\* breaths and samples to lose
C4_LongExhaleOffered ==
  /\ ev.kind = "end_exhale"
  /\ ev.a > Cs(1500)
  /\ mood.breath_count >= 1
  /\ mood.recent_breaths # <<>>
  /\ bm.exhale_samples # <<>>

\* C5: the scores are unavailable (the three getters return None and
\* get_calibrating returns True) as long as breath_count >= calibration_breaths
\* has never held, and available in every state from the first one in which
\* it holds, whatever the interleaving of end_exhale and set_thresholds calls.
C5_AvailableFromCalibration ==
  IF ev.reached
  THEN /\ get_stress_score(mood) # <<>>
       /\ get_focus_score(mood) # <<>>
       /\ get_meditation_score(mood) # <<>>
       /\ ~get_calibrating(mood)
  ELSE /\ get_stress_score(mood) = <<>>
       /\ get_focus_score(mood) = <<>>
       /\ get_meditation_score(mood) = <<>>
       /\ get_calibrating(mood)

\* C6: starting from short_streak = 0 and unworn = False, while every
\* completed exhale lasts at most artifact_short_max (0.6 s), unworn is False
\* after each of the first unworn_streak_needed - 1 (5) of them, becomes True
\* at the unworn_streak_needed-th (6th) and stays True for the short exhales
\* that follow.
C6_UnwornAtSixthShort ==
  /\ d.unworn_streak_needed = 6
  /\ d.artifact_short_max = Cs(60)
  /\ (ev.kind = "record_exhale" /\ ev.run # None) =>
       /\ ev.dur <= Cs(60)
       /\ d.unworn <=> (ev.run >= 6)

\* a seventh short exhale in a row has been recorded
C6_SeventhShort ==
  /\ ev.kind = "record_exhale"
  /\ ev.run = 7
  /\ d.unworn

\* C7: a completed exhale longer than artifact_short_max (0.6 s) never
\* increments short_streak and never sets unworn, whatever its depth
\* category: after it short_streak = 0, and unworn is True only if it was
\* True before (so 1.8 s exhales in a row leave unworn False).
C7_NormalExhaleNeverCounts ==
  (ev.kind = "record_exhale" /\ ev.dur > Cs(60)) =>
    /\ d.short_streak = 0
    /\ d.unworn => ev.pre_unworn

\* six exhales have been recorded, the last two of 1.8 s, which is in the
\* very-short depth category
C7_SixthAt1800ms ==
  /\ ev.kind = "record_exhale"
  /\ n_calls >= 6
  /\ ev.dur = Cs(180)
  /\ ev.prev_dur = Cs(180)
  /\ get_depth_color(d, ev.dur) = 0
  /\ ~d.unworn

\* C8: after _record_exhale with a duration of at least worn_recovery_min
\* (1.5 s), short_streak = 0 and unworn = False, whatever they were before.
C8_LongExhaleRecovers ==
  /\ d.worn_recovery_min = Cs(150)
  /\ (ev.kind = "record_exhale" /\ ev.dur >= Cs(150)) =>
       (d.short_streak = 0 /\ ~d.unworn)

\* an exhale of exactly worn_recovery_min has been recorded on a tracker
\* that was unworn with a streak running
C8_RecoveredFromUnworn ==
  /\ ev.kind = "record_exhale"
  /\ ev.dur = d.worn_recovery_min
  /\ ev.pre_unworn
  /\ ev.pre_streak >= d.unworn_streak_needed
  /\ ~d.unworn

\* C9: unworn, once True, is cleared only by a completed exhale of at least
\* worn_recovery_min; an exhale longer than artifact_short_max and shorter
\* than worn_recovery_min resets short_streak to 0 and leaves unworn as it
\* was; and while unworn is False a short exhale that follows a normal one
\* does not set it.
C9_UnwornHysteresis ==
  ev.kind = "record_exhale" =>
    /\ (ev.pre_unworn /\ ~d.unworn) => ev.dur >= d.worn_recovery_min
    /\ (ev.dur > d.artifact_short_max /\ ev.dur < d.worn_recovery_min) =>
         (d.short_streak = 0 /\ d.unworn = ev.pre_unworn)
    /\ (ev.prev_dur # None /\ ev.prev_dur > d.artifact_short_max
          /\ ev.dur <= d.artifact_short_max /\ ~ev.pre_unworn) => ~d.unworn

\* an exhale between the two lengths has been recorded on an unworn tracker
C9_MediumExhaleWhileUnworn ==
  /\ ev.kind = "record_exhale"
  /\ ev.dur > d.artifact_short_max
  /\ ev.dur < d.worn_recovery_min
  /\ ev.pre_unworn
  /\ ev.pre_streak > 0
  /\ d.unworn
  /\ d.short_streak = 0

\* C10: on an Exhale -> Inhale transition the completed exhale is handed off
\* exactly once, with duration now - exhale_start_time, first to
\* _record_exhale and then to mood.end_exhale (together with
\* last_inhale_duration), and at both hand-offs phase, t_phase_start,
\* inhale_start_time and refrac_until still have the values they had before
\* the sub-step; only then are they set for Inhale.
C10_HandOffBeforeSwitch ==
  (ev.kind = "substep"
     /\ \E i \in 1..Len(ev.log) :
          ev.log[i].op = "phase" /\ ev.log[i].a = PH_EXH /\ ev.log[i].b = PH_INH)
    =>
    LET log == ev.log
        dur == ev.now - ev.pre_exhale_start
    IN /\ ev.pre_exhale_start # None
       /\ Len(log) = 3
       /\ log[1].op = "record_exhale" /\ log[1].a = dur
       /\ log[2].op = "end_exhale" /\ log[2].a = dur
       /\ log[2].b = ev.pre_last_inhale
       /\ log[3].op = "phase"
       /\ \A i \in 1..2 :
            /\ log[i].phase = PH_EXH
            /\ log[i].t_phase_start = ev.pre_t_phase_start
            /\ log[i].inhale_start_time = ev.pre_inhale_start
            /\ log[i].refrac_until = ev.pre_refrac
       /\ d.phase = PH_INH
       /\ d.t_phase_start = ev.now
       /\ d.inhale_start_time = ev.now
       /\ d.refrac_until = ev.now + RefracLen
       /\ d.last_exhale_duration = dur
       /\ d.last_exhale_time = ev.now

\* a sub-step has gone from Exhale to Inhale and handed a positive duration
\* to both collaborators
C10_ExhaleHandedOff ==
  /\ ev.kind = "substep"
  /\ ev.pre_phase = PH_EXH
  /\ d.phase = PH_INH
  /\ Len(ev.log) = 3
  /\ ev.log[2].op = "end_exhale"
  /\ ev.log[2].a > 0
  /\ ev.pre_t_phase_start # ev.now

\* C11: Inhale is entered only from Idle or Exhale in a pass with
\* norm > th_start, Exhale only from Idle or Inhale in a pass with
\* norm < -th_start; when the source phase is not Idle the phase must have
\* lasted now - t_phase_start >= MIN_PHASE_S, from Idle no dwell is needed.
C11_EntryConditions ==
  \A i \in 1..Len(ev.trans) :
    LET r == ev.trans[i] IN
    \A j \in 1..Len(r.log) :
      LET e == r.log[j] IN
      (e.op = "phase" /\ e.b # PH_IDLE) =>
        /\ e.b = PH_INH => (e.a \in {PH_IDLE, PH_EXH} /\ r.norm > r.pre.th_start)
        /\ e.b = PH_EXH => (e.a \in {PH_IDLE, PH_INH} /\ r.norm < -r.pre.th_start)
        /\ e.a # PH_IDLE => ev.now - e.t_phase_start >= MIN_PHASE_S

\* Inhale, entered from Idle before MIN_PHASE_S had passed since
\* construction, is left for Exhale exactly when the minimum dwell has elapsed
C11_ExhaleAtMinimumDwell ==
  \E i \in 1..Len(ev.trans) :
    LET r == ev.trans[i] IN
    \E j \in 1..Len(r.log) :
      /\ r.log[j].op = "phase"
      /\ r.log[j].a = PH_INH
      /\ r.log[j].b = PH_EXH
      /\ ev.now - r.log[j].t_phase_start = MIN_PHASE_S
      /\ r.pre.t_phase_start - r.pre.inhale_start_time = 0
      /\ r.pre.inhale_start_time < MIN_PHASE_S

\* the six changes of phase
PhaseMoves ==
  { <<PH_IDLE, PH_INH>>, <<PH_IDLE, PH_EXH>>, <<PH_INH, PH_EXH>>,
    <<PH_EXH, PH_INH>>, <<PH_INH, PH_IDLE>>, <<PH_EXH, PH_IDLE>> }

\* the phase assignments of a log lead from phase a to phase b, each of them
\* one of the six changes
LeadsFromTo(log, a, b) ==
  LET q == PhaseEvents(log) IN
  IF q = <<>> THEN a = b
  ELSE /\ q[1].a = a
       /\ q[Len(q)].b = b
       /\ \A i \in 1..Len(q) : <<q[i].a, q[i].b>> \in PhaseMoves
       /\ \A i \in 1..(Len(q) - 1) : q[i].b = q[i + 1].a

\* C12: phase is always Idle, Inhale or Exhale; it is Idle after
\* construction; it changes only by one of the six changes Idle->Inhale,
\* Idle->Exhale, Inhale->Exhale, Exhale->Inhale, Inhale->Idle, Exhale->Idle,
\* and only in a pass of tick(): entering and leaving tick(), the setters
\* and a change of the sensor leave it as it was.
C12_PhaseMachine ==
  /\ d.phase \in {PH_IDLE, PH_INH, PH_EXH}
  /\ ev.kind = "init" => d.phase = PH_IDLE
  /\ ev.kind \notin {"init", "substep"} => d.phase = ev.pre_phase
  /\ ev.kind = "substep" => LeadsFromTo(ev.log, ev.pre_phase, d.phase)

\* a preset has just been applied while the detector, after a phase change
\* in tick(), is in Exhale
C12_PresetAppliedInExhale ==
  /\ ev.kind = "apply_sensitivity"
  /\ d.phase = PH_EXH
  /\ ev.last_change > 0

\* C13: t_phase_start is the clock value of the latest phase change, or
\* the construction time when there has been none; a pass that assigns
\* phase leaves t_phase_start = now, and nothing else changes it.
C13_PhaseStartIsLastChange ==
  /\ d.t_phase_start = ev.last_change
  /\ ev.kind \notin {"init", "substep"} => d.t_phase_start = ev.pre_t_phase_start
  /\ ev.kind = "substep" =>
        IF PhaseEvents(ev.log) # <<>> THEN d.t_phase_start = ev.now
        ELSE d.t_phase_start = ev.pre_t_phase_start

\* a pass of a later tick() call that assigns no phase, after a phase change
C13_LaterPassKeepsStart ==
  /\ ev.kind = "substep"
  /\ PhaseEvents(ev.log) = <<>>
  /\ d.t_phase_start > 0
  /\ ev.now > d.t_phase_start

\* C14: a tick() call at clock value now makes one pass for every DT
\* boundary owed (next_proc, next_proc + DT, ... up to now) and then returns
\* with next_proc > now, and with next_proc - DT <= now when a pass was
\* made; a call entered with now < next_proc makes no pass and changes nothing.
C14_OnePassPerBoundaryOwed ==
  /\ ev.kind = "substep" =>
        /\ ev.steps <= Owed(ev.entry_proc, now)
        /\ d.next_proc = ev.entry_proc + ev.steps * DT
  /\ ev.kind = "return" =>
        /\ ev.steps = Owed(ev.entry_proc, now)
        /\ d.next_proc = ev.entry_proc + ev.steps * DT
        /\ d.next_proc > now
        /\ ev.steps >= 1 => d.next_proc - DT <= now
        /\ now < ev.entry_proc => (ev.steps = 0 /\ ev.entry = <<d, mood, bm>>)

\* a call after the first that owed more than one pass has returned
C14_SeveralPassesReturned ==
  /\ ev.kind = "return"
  /\ ev.steps > 1
  /\ ev.entry_proc > 0

\* C15: tick() returns True exactly when some pass of the call assigned
\* phase; when it returns False, phase and t_phase_start are what they were
\* when the call was entered.
C15_ReturnTellsPhaseChange ==
  ev.kind = "return" =>
    /\ ret = (ev.last_change = now)
    /\ ~ret => /\ d.phase = ev.entry_phase
               /\ d.t_phase_start = ev.entry_t_phase_start

\* a call of several passes has returned True, the phase changed
C15_TrueAfterSeveralPasses ==
  /\ ev.kind = "return"
  /\ ret
  /\ ev.steps > 1
  /\ d.phase # ev.entry_phase

\* C16: from Idle, with a normalized flow that rises without ever falling
\* from 0 to 2 * th_start and is then held, the only phase change of the run
\* is Idle -> Inhale, in the first pass whose norm is above th_start and not
\* before; the detector is in Inhale from then on.
C16_RampGivesOneInhale ==
  IF ev.first_above = 0
  THEN ev.changes = <<>> /\ d.phase = PH_IDLE
  ELSE /\ Len(ev.changes) = 1
       /\ ev.changes[1].call = ev.first_above
       /\ ev.changes[1].step = 1
       /\ Len(ev.changes[1].log) = 1
       /\ ev.changes[1].log[1].a = PH_IDLE
       /\ ev.changes[1].log[1].b = PH_INH
       /\ d.phase = PH_INH

\* the flow rose above th_start in the third call or later, by the least
\* amount, and has since been held at 2 * th_start, once for seconds
C16_HeldAfterRamp ==
  /\ ev.first_above >= 3
  /\ ev.held >= 2
  /\ n_rare = 1
  /\ d.norm = 2 * d.th_start
  /\ ev.changes # <<>>
  /\ ev.changes[1].norm = d.th_start + 1

\* the pass r ended an exhale with a change Exhale -> Inhale, and the
\* durations handed to the scorer were implausible
EndsImplausibleExhale(r) ==
  /\ \E j \in 1..Len(r.log) :
        r.log[j].op = "phase" /\ r.log[j].a = PH_EXH /\ r.log[j].b = PH_INH
  /\ \E j \in 1..Len(r.log) :
        r.log[j].op = "end_exhale" /\ ~ValidBreath(r.log[j].a, r.log[j].b)

\* C17: an implausible completed exhale (shorter than 0.3 s or longer than
\* 15 s, or with an inhale shorter than 0.2 s or longer than 10 s) leaves
\* what get_state reports as exhale duration and depth category as it was
\* before the change Exhale -> Inhale that ended it.
C17_ImplausibleExhaleNotReported ==
  \A i \in 1..Len(ev.trans) :
    LET r == ev.trans[i]
        before == get_state(r.pre, r.pre_mood)
        after == get_state(r.post, r.post_mood)
    IN EndsImplausibleExhale(r) =>
         /\ after.exhale_duration = before.exhale_duration
         /\ after.depth_color = before.depth_color

\* C18: apply_sensitivity(p) works for every integer p: below 0 it does
\* what apply_sensitivity(0) does, above 9 what apply_sensitivity(9) does,
\* and the index into SENSITIVITY_PRESETS is always in 0..9.
C18_PresetIdClamped ==
  ev.kind = "apply_sensitivity" =>
    /\ ev.index \in 0..9
    /\ ev.index + 1 \in DOMAIN SENSITIVITY_PRESETS
    /\ ev.p < 0 => d = apply_sensitivity(ev.pre, 0)
    /\ ev.p > 9 => d = apply_sensitivity(ev.pre, 9)
    /\ ev.p \in 0..9 => ev.index = ev.p

\* a preset id below 0 has been applied to a detector whose filters were
\* running and whose thresholds were not those of preset 0
C18_NegativeIdApplied ==
  /\ ev.kind = "apply_sensitivity"
  /\ ev.p < 0
  /\ ev.pre.t_fast # 0
  /\ ev.pre.th_start # SENSITIVITY_PRESETS[1][3]
  /\ d.th_start = SENSITIVITY_PRESETS[1][3]

\* the detector fields apply_sensitivity assigns
PresetFields ==
  {"alpha_flow", "deriv_gain", "th_start", "th_end",
   "t_fast", "t_slow", "prev_flow", "flow_lp"}

\* C19: after apply_sensitivity(i), from any state, alpha_flow, deriv_gain,
\* th_start and th_end are the four values of preset clamp(i, 0, 9), t_fast,
\* t_slow, prev_flow and flow_lp are 0, and every other field of the
\* detector, the scorer and the metrics are what they were.
C19_PresetFrame ==
  ev.kind = "apply_sensitivity" =>
    /\ <<d.alpha_flow, d.deriv_gain, d.th_start, d.th_end>>
          = SENSITIVITY_PRESETS[Clamp(0, 9, ev.p) + 1]
    /\ d.t_fast = 0 /\ d.t_slow = 0 /\ d.prev_flow = 0 /\ d.flow_lp = 0
    /\ DOMAIN d = DOMAIN ev.pre
    /\ \A f \in (DOMAIN d) \ PresetFields : d[f] = ev.pre[f]
    /\ mood = ev.pre_mood
    /\ bm = ev.pre_bm

\* a preset id above 9 has been applied in Exhale, with all four filter
\* values away from 0 before the call
C19_AppliedWhileFiltersRun ==
  /\ ev.kind = "apply_sensitivity"
  /\ ev.p > 9
  /\ ev.pre.phase = PH_EXH
  /\ ev.pre.t_fast # 0 /\ ev.pre.t_slow # 0
  /\ ev.pre.prev_flow # 0 /\ ev.pre.flow_lp # 0

\* C20: apply_sensitivity(i) called twice in a row leaves the same state
\* as called once.
C20_PresetIdempotent ==
  (ev.kind = "apply_sensitivity" /\ ev.prev_kind = "apply_sensitivity"
     /\ ev.prev_p = ev.p) =>
    /\ d = ev.pre
    /\ mood = ev.pre_mood
    /\ bm = ev.pre_bm

\* the same id has been applied twice in a row, and the first of the two
\* calls changed the thresholds and cleared running filters
C20_SecondCallSameId ==
  /\ ev.kind = "apply_sensitivity"
  /\ ev.prev_kind = "apply_sensitivity"
  /\ ev.prev_p = ev.p
  /\ ev.prev_pre.th_start # ev.pre.th_start
  /\ ev.prev_pre.flow_lp # 0

\* the detector fields apply_color_thresholds assigns
ColorFields == {"very_short_max", "short_max", "medium_max", "long_max"}

\* the index, counted from 0, of the first of the boundaries b that dur does
\* not exceed, and Len(b) when it exceeds them all
FirstBoundary(b, dur) ==
  IF \E i \in 1..Len(b) : dur <= b[i]
  THEN (CHOOSE i \in 1..Len(b) :
          dur <= b[i] /\ \A j \in 1..(i - 1) : dur > b[j]) - 1
  ELSE Len(b)

\* C21: get_depth_color(dur) is the index 0..3 of the first boundary in the
\* order very_short_max, short_max, medium_max, long_max that dur does not
\* exceed, and 4 when dur exceeds all four; it is always in 0..4 and uses
\* the boundaries of the latest apply_color_thresholds call, which replaces
\* all four boundaries and changes nothing else.
C21_DepthCategory ==
  /\ ev.kind = "get_depth_color" =>
        /\ ev.result \in 0..4
        /\ ev.result = FirstBoundary(ev.latest, ev.arg)
  /\ ev.kind = "apply_color_thresholds" =>
        /\ <<d.very_short_max, d.short_max, d.medium_max, d.long_max>> = ev.arg
        /\ DOMAIN d = DOMAIN ev.pre
        /\ \A f \in (DOMAIN d) \ ColorFields : d[f] = ev.pre[f]
        /\ mood = ev.pre_mood
        /\ bm = ev.pre_bm

\* after boundaries that are not in rising order were applied, a duration
\* equal to the first of them was asked about
C21_BoundaryAfterUnorderedApply ==
  /\ ev.kind = "get_depth_color"
  /\ ev.latest[2] < ev.latest[1]
  /\ ev.arg = ev.latest[1]
  /\ ev.result = 0

\* C22: the exhale sample buffer never holds more than _max_samples = 50
\* entries; a sample is appended only in a pass that begins in Exhale; once
\* the buffer is full the sample is dropped and the stored entries stay as
\* they are; and the buffer is emptied at every change into Exhale.
C22_SampleBufferCapped ==
  /\ bm.max_samples = 50
  /\ Len(bm.exhale_samples) <= bm.max_samples
  /\ ev.kind \notin {"init", "substep"} => bm.exhale_samples = ev.pre_samples
  /\ ev.kind = "substep" =>
        IF \E i \in 1..Len(ev.log) : ev.log[i].op = "phase" /\ ev.log[i].b = PH_EXH
        THEN bm.exhale_samples = <<>>
        ELSE IF ev.pre_phase = PH_EXH /\ Len(ev.pre_samples) < 50
        THEN bm.exhale_samples = Append(ev.pre_samples, d.flow_lp)
        ELSE bm.exhale_samples = ev.pre_samples

\* a pass in Exhale met a full buffer of samples that are not all alike
C22_SampleDroppedWhenFull ==
  /\ ev.kind = "substep"
  /\ ev.pre_phase = PH_EXH
  /\ Len(ev.pre_samples) = 50
  /\ ev.pre_samples[1] # ev.pre_samples[50]
  /\ d.flow_lp # ev.pre_samples[50]

\* a plausible breath has just been ended on the metrics
ValidEndExhale ==
  ev.kind = "end_exhale" /\ ValidBreath(ev.a, ev.b)

\* C23: _compute_smoothness gives 100 whenever the exhale sample buffer has
\* fewer than 7 entries, whatever they are, the empty buffer included.
C23_SmoothnessNeedsSevenSamples ==
  (ValidEndExhale /\ Len(ev.pre_bm.exhale_samples) < 7) =>
    /\ bm.last_smoothness = 100
    /\ compute_smoothness(ev.pre_bm.exhale_samples) = 100

\* a breath was ended with six samples that swing between strong and weak
C23_SixUnevenSamples ==
  /\ ValidEndExhale
  /\ Len(ev.pre_bm.exhale_samples) = 6
  /\ \A i \in 1..5 : ev.pre_bm.exhale_samples[i] # ev.pre_bm.exhale_samples[i + 1]
  /\ bm.last_smoothness = 100

\* the positions, counted from 0, of the samples of largest absolute value
PeakPositions(q) ==
  { i - 1 : i \in { j \in 1..Len(q) : \A k \in 1..Len(q) : Abs(q[j]) >= Abs(q[k]) } }

\* the least member of a non-empty set of numbers
Least(S) == CHOOSE x \in S : \A y \in S : x <= y

\* C24: _compute_symmetry gives 50 whenever the exhale sample buffer has
\* fewer than 3 entries, whatever they are; with 3 or more it gives a value
\* in 0..100 fixed by the position of the first sample of largest absolute
\* value: 0 when that is the first sample, 100 when it is the last.
C24_SymmetryFromFirstPeak ==
  ValidEndExhale =>
    LET q == ev.pre_bm.exhale_samples
        n == Len(q)
    IN IF n < 3 THEN bm.last_symmetry = 50
       ELSE LET first == Least(PeakPositions(q)) IN
            /\ bm.last_symmetry \in 0..100
            /\ bm.last_symmetry = (first * 100) \div (n - 1)
            /\ first = 0 => bm.last_symmetry = 0
            /\ first = n - 1 => bm.last_symmetry = 100

\* a breath was ended whose largest sample came twice, first in the middle
C24_PeakTwice ==
  /\ ValidEndExhale
  /\ Len(ev.pre_bm.exhale_samples) >= 5
  /\ Cardinality(PeakPositions(ev.pre_bm.exhale_samples)) = 2
  /\ bm.last_symmetry \in 1..99

\* the last n entries of q, all of q when it has fewer
LastN(q, n) == SubSeq(q, Max(1, Len(q) - n + 1), Len(q))

\* |total(i+1) - total(i)| for every two consecutive accepted breaths
TotalDiffs(h) ==
  [ i \in 1..(Len(h) - 1) |-> Abs(h[i + 1][3] - h[i][3]) ]

\* C25: after any sequence of accepted end_exhale calls recent_breaths holds
\* at most 5 tuples and successive_diffs at most 4 values; each is exactly
\* the most recent entries in arrival order (the oldest is evicted when the
\* window is full), and each successive_diffs entry is the absolute
\* difference between the total durations of two consecutive accepted
\* breaths.
C25_RollingWindows ==
  /\ mood.max_recent = 5
  /\ mood.max_diffs = 4
  /\ Len(mood.recent_breaths) <= 5
  /\ Len(mood.successive_diffs) <= 4
  /\ mood.recent_breaths = LastN(ev.hist, 5)
  /\ mood.successive_diffs = LastN(TotalDiffs(ev.hist), 4)

\* a sixth breath has been accepted, so the first one and the first
\* difference have been evicted, and they differed from what replaced them
C25_SixthBreathEvicts ==
  /\ ev.kind = "end_exhale"
  /\ ValidBreath(ev.a, ev.b)
  /\ Len(ev.hist) = 6
  /\ ev.hist[1] # ev.hist[6]
  /\ TotalDiffs(ev.hist)[1] # TotalDiffs(ev.hist)[5]
  /\ Len(mood.recent_breaths) = 5
  /\ Len(mood.successive_diffs) = 4

\* C26: in every reachable state of the scorer, for any breath durations
\* and any thresholds passed to set_thresholds, the stored stress score is
\* an integer in [-5, 5] and the stored focus and meditation scores are
\* integers in [0, 10]; the meditation score is 0 whenever fewer than 3
\* breaths are in the rolling window.
C26_ScoresInRange ==
  /\ mood.stress_score \in -5..5
  /\ mood.focus_score \in 0..10
  /\ mood.meditation_score \in 0..10
  /\ Len(mood.recent_breaths) < 3 => mood.meditation_score = 0

\* how far the ratio component of the stress score lies before it is
\* limited to [-5, 5], in thousandths
RawRatioScore(m) ==
  5000 - 10 * Div((m.current_ratio - STRESS_RATIO_ANXIOUS) * 1000,
                  Max(100, m.calm_ratio - STRESS_RATIO_ANXIOUS))

\* a breath has been scored under thresholds whose ranges are not
\* positive, with a ratio component far below -5 before limiting
C26_DegenerateThresholdsScored ==
  /\ ev.kind = "end_exhale"
  /\ ValidBreath(ev.a, ev.b)
  /\ mood.calm_ratio < STRESS_RATIO_ANXIOUS
  /\ mood.calm_variability_cv > STRESS_RMSSD_CV_ANXIOUS
  /\ mood.focus_consistency_cv = 0
  /\ Len(mood.recent_breaths) >= 3
  /\ RawRatioScore(mood) < -10000
  /\ mood.meditation_score > 0

\* the total duration of the breath end_exhale has just accepted
LatestTotal == ev.a + ev.b

\* the mean total duration of the rolling window
Baseline(m) == Div(SumSeq(Totals(m)), Len(m.recent_breaths))

\* C27: in the stress score the session-relative duration component
\* reflects how far the current breath cycle lies from the rolling
\* baseline: once the window holds 3 breaths, a cycle shorter than the
\* baseline gives a positive component and a longer one a negative
\* component.
C27_DurationComponentFollowsDeviation ==
  (/\ ev.kind = "end_exhale"
   /\ ValidBreath(ev.a, ev.b)
   /\ Len(mood.recent_breaths) >= 3) =>
    /\ LatestTotal < Baseline(mood) => DurationScore(mood) > 0
    /\ LatestTotal > Baseline(mood) => DurationScore(mood) < 0

\* C28 as stated: after BreathMetrics.reset(), from any prior history,
\* every field equals its value right after construction.
C28_ResetEqualsConstruction ==
  ev.kind = "reset" => bm = MetricsInit

\* C28, amended: after BreathMetrics.reset(), from any prior history,
\* breath_count = 0, is_calibrating = True, the cached durations are 0,
\* smoothness = 100, peak_flow = 0, symmetry = 50 and the sample buffer is
\* empty; calibration_breaths and the buffer limit keep the values they had
\* before the call, so the object equals a newly constructed one exactly
\* when calibration_breaths still has its default.
C28_ResetRestoresSessionFields ==
  ev.kind = "reset" =>
    /\ bm.breath_count = 0
    /\ bm.is_calibrating
    /\ bm.last_exhale_duration = 0
    /\ bm.last_inhale_duration = 0
    /\ bm.last_cycle_duration = 0
    /\ bm.last_smoothness = 100
    /\ bm.last_peak_flow = 0
    /\ bm.last_symmetry = 50
    /\ bm.exhale_samples = <<>>
    /\ bm.calibration_breaths = ev.pre_bm.calibration_breaths
    /\ bm.max_samples = ev.pre_bm.max_samples
    /\ bm = [MetricsInit EXCEPT
               !.calibration_breaths = ev.pre_bm.calibration_breaths]
    /\ bm = MetricsInit
         <=> ev.pre_bm.calibration_breaths = CALIBRATION_BREATHS

\* a reset after calibration has ended under a changed calibration_breaths,
\* with a breath measured and samples still in the buffer
C28_ResetAfterSession ==
  /\ ev.kind = "reset"
  /\ ev.pre_bm.calibration_breaths # CALIBRATION_BREATHS
  /\ ~ev.pre_bm.is_calibrating
  /\ ev.pre_bm.breath_count > 0
  /\ ev.pre_bm.last_cycle_duration > 0
  /\ ev.pre_bm.last_smoothness < 100
  /\ ev.pre_bm.last_symmetry # 50
  /\ ev.pre_bm.last_peak_flow > 0
  /\ ev.pre_bm.exhale_samples # <<>>

\* the passes of the last tick() call that ended with the phase Exhale
\* entered from another phase
ExhaleEntries ==
  { i \in 1..Len(ev.trans) :
      \E k \in 1..Len(ev.trans[i].log) :
        /\ ev.trans[i].log[k].op = "phase"
        /\ ev.trans[i].log[k].b = PH_EXH }

\* the phase an exhale entry came from
SourcePhase(r) ==
  LET k == CHOOSE j \in 1..Len(r.log) : r.log[j].op = "phase" /\ r.log[j].b = PH_EXH
  IN r.log[k].a

\* C29: on a transition into Exhale, last_inhale_duration becomes
\* now - inhale_start_time, unvalidated, when the phase left is Inhale and
\* keeps its value when the phase left is Idle; in both cases
\* exhale_start_time = now, idle_hold_start is None, refrac_until =
\* now + MIN_PHASE_S * 0.5 and the sample buffer of the metrics is empty.
C29_EnteringExhale ==
  ev.kind = "tick" =>
    \A i \in ExhaleEntries :
      LET r == ev.trans[i] IN
      /\ SourcePhase(r) \in {PH_INH, PH_IDLE}
      /\ SourcePhase(r) = PH_INH =>
           /\ r.pre.inhale_start_time # None
           /\ r.post.last_inhale_duration = ev.now - r.pre.inhale_start_time
      /\ SourcePhase(r) = PH_IDLE =>
           r.post.last_inhale_duration = r.pre.last_inhale_duration
      /\ r.post.phase = PH_EXH
      /\ r.post.exhale_start_time = ev.now
      /\ r.post.idle_hold_start = None
      /\ r.post.refrac_until = ev.now + MIN_PHASE_S \div 2
      /\ r.post_bm.exhale_samples = <<>>

\* an exhale entered from Idle after an earlier inhale and an earlier
\* exhale: an inhale start is known but is not used, and the samples of
\* the earlier exhale are dropped
C29_ExhaleFromIdleAfterInhale ==
  /\ ev.kind = "tick"
  /\ \E i \in ExhaleEntries :
       LET r == ev.trans[i] IN
       /\ SourcePhase(r) = PH_IDLE
       /\ r.pre.inhale_start_time # None
       /\ ev.now - r.pre.inhale_start_time # r.pre.last_inhale_duration
       /\ r.pre_bm.exhale_samples # <<>>
       /\ r.post_bm.exhale_samples = <<>>

\* an exhale entered from an inhale that lasted more than the 10 s
\* end_exhale accepts: the duration is stored all the same
C29_LongInhaleRecorded ==
  /\ ev.kind = "tick"
  /\ \E i \in ExhaleEntries :
       LET r == ev.trans[i] IN
       /\ SourcePhase(r) = PH_INH
       /\ r.post.last_inhale_duration > Cs(1000)
       /\ r.post.last_inhale_duration # r.pre.last_inhale_duration
       /\ r.pre_bm.exhale_samples # <<>>

\* a pass of the while loop has been made between this state and the next
\* one: nothing else advances next_proc
PassMade == d'.next_proc = d.next_proc + DT

\* what a pass does to the two sides of the normalizer, flow_lp being the
\* filtered flow of that pass
NormalizerStep ==
  PassMade =>
    /\ d'.flow_lp > 0 =>
         /\ d'.peak_in = d.peak_in
         /\ d'.scale_in = d.scale_in
         /\ d'.peak_ex >= d'.flow_lp
         /\ d'.peak_ex = Max(Mul(d.peak_ex, LEAK_DECAY), d'.flow_lp)
    /\ d'.flow_lp < 0 =>
         /\ d'.peak_ex = d.peak_ex
         /\ d'.scale_ex = d.scale_ex
         /\ d'.peak_in >= -d'.flow_lp
         /\ d'.peak_in = Max(Mul(d.peak_in, LEAK_DECAY), -d'.flow_lp)
    /\ d'.flow_lp = 0 =>
         /\ d'.peak_ex = d.peak_ex
         /\ d'.scale_ex = d.scale_ex
         /\ d'.peak_in = d.peak_in
         /\ d'.scale_in = d.scale_in

\* C30: the two sides of the normalizer are independent: a sub-step with
\* flow_lp > 0 updates only peak_ex and scale_ex and leaves peak_in and
\* scale_in as they were, a sub-step with flow_lp < 0 updates only peak_in
\* and scale_in, and a sub-step with flow_lp = 0 changes none of the four;
\* after an update the updated peak is at least the magnitude of the flow.
C30_SidesIndependent == [][NormalizerStep]_vars

\* a sub-step with a positive flow has raised peak_ex to the flow, after
\* earlier sub-steps with a negative flow had moved peak_in and scale_in
C30_PositiveAfterNegative ==
  /\ ev.kind = "substep"
  /\ d.flow_lp > 0
  /\ d.peak_ex = d.flow_lp
  /\ d.peak_in # DetectorInit(0).peak_in
  /\ d.scale_in # DetectorInit(0).scale_in
  /\ d.scale_ex # DetectorInit(0).scale_ex

\* the latest pass ran inside the refractory window
InRefractory == ev.kind = "substep" /\ ev.now < ev.pre_refrac

\* C31: in a pass with now < refrac_until the idle check still runs (a
\* quiet sample starts the hold timer or keeps it, any other sample resets
\* it), while the inhale-start and exhale-start checks are skipped: the
\* phase does not change to Inhale or Exhale in such a pass.
C31_RefractoryPass ==
  InRefractory =>
    /\ ~EntersNonIdle(ev.log)
    /\ d.phase \in {ev.pre_phase, PH_IDLE}
    /\ d.refrac_until = ev.pre_refrac
    /\ ev.pre_phase # PH_IDLE =>
         IF Quiet(ev.norm, ev.dnorm)
         THEN d.idle_hold_start =
                (IF ev.pre_hold = None THEN ev.now ELSE ev.pre_hold)
         ELSE d.idle_hold_start = None

\* a quiet sample has started the hold timer inside the refractory window
C31_HoldStartedInRefractory ==
  /\ InRefractory
  /\ ev.pre_phase # PH_IDLE
  /\ Quiet(ev.norm, ev.dnorm)
  /\ ev.pre_hold = None
  /\ d.idle_hold_start = ev.now

\* the summed magnitudes of the samples, in thousandths
SumAbs(q) == SumSeq([i \in 1..Len(q) |-> Abs(q[i])])

\* the summed magnitudes of the second differences of the samples
SumAccel(q) ==
  SumSeq([i \in 1..(Len(q) - 2) |-> Abs((q[i + 2] - q[i + 1]) - (q[i + 1] - q[i]))])

\* the samples form an arithmetic progression
IsArithmetic(q) ==
  \A i \in 1..(Len(q) - 2) : q[i + 2] - q[i + 1] = q[i + 1] - q[i]

\* C32: the cached smoothness is always an integer in [0, 100].  With at
\* least 7 samples and a mean absolute flow of at least 0.05 it is 100 when
\* all second differences are zero (an arithmetic progression), 0 when the
\* mean absolute second difference divided by the mean absolute flow is at
\* least 0.2, and in between it is 100 less the whole part of 500 times that
\* quotient; with a mean absolute flow below 0.05 it is 100.  The quotient
\* is (SumAccel * n) / ((n - 2) * SumAbs), compared here by cross
\* multiplication.
C32_SmoothnessScale ==
  /\ bm.last_smoothness \in 0..100
  /\ ValidEndExhale =>
       LET q == ev.pre_bm.exhale_samples
           n == Len(q)
           sm == bm.last_smoothness
       IN /\ (n >= 7 /\ SumAbs(q) < 50 * n) => sm = 100
          /\ (n >= 7 /\ SumAbs(q) >= 50 * n) =>
               LET num == SumAccel(q) * n
                   den == (n - 2) * SumAbs(q)
               IN /\ IsArithmetic(q) => sm = 100
                  /\ 5 * num >= den => sm = 0
                  /\ 5 * num < den =>
                       /\ (100 - sm) * den <= 500 * num
                       /\ 500 * num < (101 - sm) * den

\* an exhale of seven samples on a ramp with a kink has been scored
\* strictly between 0 and 100
C32_KinkedRampScored ==
  /\ ValidEndExhale
  /\ Len(ev.pre_bm.exhale_samples) = 7
  /\ SumAbs(ev.pre_bm.exhale_samples) >= 50 * 7
  /\ ~IsArithmetic(ev.pre_bm.exhale_samples)
  /\ bm.last_smoothness \in 1..99

\* the batch handle_rx has just worked on holds the mode command "M,F"
HasModeReset ==
  /\ ev.kind = "rx"
  /\ \E i \in 1..Len(ev.batch) : ev.batch[i] = <<"M", "F">>

\* C33: on the mode command "M,F" the firmware switches to Open mode and
\* resets the calibration state of the detector's scorer (breath_count = 0,
\* calibrating) without raising an error, and the remaining lines of the
\* same batch are still parsed.
C33_ModeResetHandled ==
  HasModeReset =>
    /\ ~ev.raised
    /\ ev.parsed = Len(ev.batch)
    /\ mood.breath_count = 0
    /\ mood.is_calibrating
    /\ ev.batch[Len(ev.batch)] = <<"M", "F">> =>
         app.current_mode = MODE_OPEN

\* the inhale-start and exhale-start checks of a detector that has no
\* refractory test
DetectPhaseNoRefractory(B, t) ==
  IF B.d.phase # PH_INH /\ B.norm > B.d.th_start THEN DetectInhale(B, t)
  ELSE IF B.d.phase # PH_EXH /\ B.norm < -B.d.th_start THEN DetectExhale(B, t)
  ELSE B

\* a pass of the loop is about to be made
PassEnabled == pc = "loop" /\ now >= d.next_proc

\* C34: the refractory lock is subsumed by the minimum dwell.  Whenever
\* now < refrac_until the phase is Inhale or Exhale and its age is below
\* MIN_PHASE_S * 0.5, hence below MIN_PHASE_S; whenever the phase is Idle
\* now >= refrac_until; and every pass the detector makes ends in the very
\* state, with the very calls and phase changes, that the same pass without
\* the refractory test ends in, so the phases, recorded durations and
\* return values are the same for every input.
C34_RefractorySubsumed ==
  /\ now < d.refrac_until =>
       /\ d.phase \in {PH_INH, PH_EXH}
       /\ now - d.t_phase_start < MIN_PHASE_S \div 2
       /\ MIN_PHASE_S \div 2 < MIN_PHASE_S
  /\ d.phase = PH_IDLE => now >= d.refrac_until
  /\ PassEnabled =>
       \E B \in {IdleCheck(Front(d, mood, bm, now, ain), now)} :
         DetectPhaseNoRefractory(B, now) = DetectPhase(B, now)

\* a pass is about to run inside the refractory window with the filtered
\* flow beyond the threshold of the opposite phase: the refractory test
\* stops it, and so would the minimum dwell
C34_OppositeFlowInRefractory ==
  /\ PassEnabled
  /\ now < d.refrac_until
  /\ \E B \in {IdleCheck(Front(d, mood, bm, now, ain), now)} :
       /\ \/ B.d.phase = PH_INH /\ B.norm < -B.d.th_start
          \/ B.d.phase = PH_EXH /\ B.norm > B.d.th_start
       /\ B.phase_age < MIN_PHASE_S

\* C35: one pass of the loop makes at most one phase change.  A pass that
\* enters Idle has |norm| <= IDLE_MAG_FRAC, which is below th_start for the
\* default and for every sensitivity preset, so the inhale and exhale
\* checks that follow in the same pass do not fire.
C35_OneChangePerPass ==
  /\ TH_FRAC_START > IDLE_MAG_FRAC
  /\ \A i \in 1..Len(SENSITIVITY_PRESETS) :
       SENSITIVITY_PRESETS[i][3] > IDLE_MAG_FRAC
  /\ d.th_start > IDLE_MAG_FRAC
  /\ \A i \in 1..Len(ev.trans) :
       LET r == ev.trans[i]
       IN /\ Len(PhaseEvents(r.log)) = 1
          /\ IdleEntries(r.log) # <<>> =>
               /\ Abs(r.norm) <= IDLE_MAG_FRAC
               /\ Abs(r.norm) < r.post.th_start
               /\ ~EntersNonIdle(r.log)
               /\ r.post.phase = PH_IDLE

\* a pass has entered Idle under the most sensitive preset, whose th_start
\* is the nearest to IDLE_MAG_FRAC, with the flow at the edge of the quiet
\* band and the refractory window over
C35_IdleEnteredMostSensitive ==
  /\ ev.kind = "tick"
  /\ d.th_start = SENSITIVITY_PRESETS[10][3]
  /\ \E i \in 1..Len(ev.trans) :
       /\ IdleEntries(ev.trans[i].log) # <<>>
       /\ Abs(ev.trans[i].norm) = IDLE_MAG_FRAC
       /\ ev.now >= ev.trans[i].post.refrac_until

\* the phases entered by the passes of the last tick() call, in order
CallPhases(trans) ==
  [ i \in 1..Len(trans) |-> PhaseEvents(trans[i].log)[1].b ]

\* C36: one tick() call makes at most two phase changes: at most one entry
\* into Idle, then at most one entry into Inhale or Exhale.  Every change
\* is stamped with the one clock value of the call, so an entry into Inhale
\* or Exhale leaves the refractory window open and the phase age zero for
\* the rest of the call, and it is the last change of the call.
C36_AtMostIdleThenStart ==
  ev.kind = "tick" =>
    LET ph == CallPhases(ev.trans)
    IN /\ Len(ph) <= 2
       /\ Len(ph) = 2 => (ph[1] = PH_IDLE /\ ph[2] # PH_IDLE)
       /\ ret = (ph # <<>>)
       /\ \A i \in 1..Len(ph) :
            /\ ev.trans[i].post.t_phase_start = ev.now
            /\ ph[i] # PH_IDLE =>
                 /\ i = Len(ph)
                 /\ ev.trans[i].post.refrac_until > ev.now
                 /\ d.phase = ph[i]
                 /\ d.t_phase_start = ev.now

\* a call has entered Idle in its first pass and, the flow having risen,
\* Inhale in a later pass, with more passes still to run after that
C36_IdleThenInhaleInOneCall ==
  /\ ev.kind = "tick"
  /\ Len(ev.trans) = 2
  /\ CallPhases(ev.trans) = <<PH_IDLE, PH_INH>>
  /\ ev.trans[1].step = 1
  /\ ev.trans[2].step < ev.steps
  /\ d.phase = PH_INH

\* the _record_exhale calls of one pass
RecordCalls(log) == SelectSeq(log, LAMBDA e : e.op = "record_exhale")

\* _record_exhale(duration_s, now) leaves the unworn tracker clear whatever
\* the streak and the flag were before
ClearsUnworn(det, duration_s, t) ==
  \A s \in 0..det.unworn_streak_needed, u \in BOOLEAN :
    LET r == record_exhale([det EXCEPT !.short_streak = s, !.unworn = u],
                           duration_s, t)
    IN r.short_streak = 0 /\ ~r.unworn

\* C37: in Exhale, exhale_start_time is set and equals t_phase_start; a pass
\* that leaves Exhale calls _record_exhale exactly once, with the age of the
\* phase, and no other pass calls it; every recorded duration is at least
\* MIN_PHASE_S; an exhale that ends in Idle lasted at least 1.5 *
\* IDLE_HOLD_S and leaves short_streak = 0 and unworn = false.
C37_ExhaleRecordedOnce ==
  /\ d.phase = PH_EXH =>
       (d.exhale_start_time # None /\ d.exhale_start_time = d.t_phase_start)
  /\ \A i \in 1..Len(ev.trans) :
       LET r == ev.trans[i]
           recs == RecordCalls(r.log)
       IN /\ r.post.phase = PH_EXH =>
               /\ r.post.exhale_start_time # None
               /\ r.post.exhale_start_time = r.post.t_phase_start
          /\ r.pre.phase = PH_EXH =>
               /\ r.pre.exhale_start_time = r.pre.t_phase_start
               /\ Len(recs) = 1
               /\ recs[1].a = ev.now - r.pre.t_phase_start
               /\ r.post.last_exhale_duration = recs[1].a
          /\ r.pre.phase # PH_EXH => recs = <<>>
          /\ \A k \in 1..Len(recs) : recs[k].a >= MIN_PHASE_S
          /\ (r.pre.phase = PH_EXH /\ r.post.phase = PH_IDLE) =>
               /\ recs[1].a >= IdleHoldNeeded
               /\ r.post.short_streak = 0
               /\ ~r.post.unworn
               /\ ~r.post.last_exhale_short
               /\ ClearsUnworn(r.pre, recs[1].a, ev.now)

\* an exhale has ended by entering Idle
C37_ExhaleEndedInIdle ==
  /\ ev.kind = "tick"
  /\ \E i \in 1..Len(ev.trans) :
       /\ ev.trans[i].pre.phase = PH_EXH
       /\ ev.trans[i].post.phase = PH_IDLE
       /\ RecordCalls(ev.trans[i].log) # <<>>
  /\ d.phase = PH_IDLE

\* the end_exhale calls of one pass
HandOffs(log) == SelectSeq(log, LAMBDA e : e.op = "end_exhale")

\* what the metrics object holds apart from the sample buffer of the
\* exhale in progress
MetricsKept(met) == [met EXCEPT !.exhale_samples = <<>>]

\* C38: end_exhale is called in a pass exactly when that pass goes from
\* Exhale to Inhale.  A pass that goes from Exhale to Idle records the
\* exhale in the unworn tracker and in last_exhale_duration and leaves the
\* scorer and the metrics as they were: breath_count, the rolling windows,
\* the cached metrics and the calibration flag.  A pass that enters Inhale
\* from Idle leaves them as they were too.
C38_HandOffOnlyExhaleToInhale ==
  /\ \A i \in 1..Len(ev.trans) :
       LET r == ev.trans[i]
       IN /\ (HandOffs(r.log) # <<>>)
               <=> (r.pre.phase = PH_EXH /\ r.post.phase = PH_INH)
          /\ Len(HandOffs(r.log)) <= 1
          /\ (r.pre.phase = PH_EXH /\ r.post.phase = PH_IDLE) =>
               /\ r.post.last_exhale_duration = ev.now - r.pre.exhale_start_time
               /\ r.post.last_exhale_time = ev.now
               /\ r.post_mood = r.pre_mood
               /\ MetricsKept(r.post_bm) = MetricsKept(r.pre_bm)
          /\ (r.pre.phase = PH_IDLE /\ r.post.phase = PH_INH) =>
               /\ r.post_mood = r.pre_mood
               /\ MetricsKept(r.post_bm) = MetricsKept(r.pre_bm)
               /\ r.post.last_exhale_duration = r.pre.last_exhale_duration
          /\ i < Len(ev.trans) =>
               /\ ev.trans[i + 1].pre_mood = r.post_mood
               /\ MetricsKept(ev.trans[i + 1].pre_bm) = MetricsKept(r.post_bm)
          /\ i = Len(ev.trans) =>
               /\ mood = r.post_mood
               /\ MetricsKept(bm) = MetricsKept(r.post_bm)

\* an exhale has ended in Idle and, in a later pass of the same call,
\* Inhale has been entered from Idle
C38_IdleEndedExhaleThenInhale ==
  /\ ev.kind = "tick"
  /\ Len(ev.trans) = 2
  /\ ev.trans[1].pre.phase = PH_EXH
  /\ ev.trans[1].post.phase = PH_IDLE
  /\ ev.trans[2].pre.phase = PH_IDLE
  /\ ev.trans[2].post.phase = PH_INH
  /\ d.last_exhale_duration >= IdleHoldNeeded
  /\ mood.breath_count = 0

\* the passes of the last call that went from Inhale straight to Exhale
InhaleEnds(trans) ==
  { i \in 1..Len(trans) :
      trans[i].pre.phase = PH_INH /\ trans[i].post.phase = PH_EXH }

\* C39: last_inhale_duration starts at 2.0 s and is assigned only by a pass
\* that goes from Inhale to Exhale, which sets it to the length of that
\* inhale; over a tick() call it keeps its value unless such a pass
\* happened.  end_exhale is given the value the field holds at that
\* moment, whatever phases came in between.
C39_InhaleDurationFromDirectExhale ==
  /\ ev.kind = "init" => d.last_inhale_duration = Cs(200)
  /\ ev.kind = "tick" =>
       /\ InhaleEnds(ev.trans) = {} =>
            d.last_inhale_duration = ev.pre.last_inhale_duration
       /\ \A i \in 1..Len(ev.trans) :
            LET r == ev.trans[i]
                h == HandOffs(r.log)
            IN /\ r.post.last_inhale_duration # r.pre.last_inhale_duration
                    => i \in InhaleEnds(ev.trans)
               /\ i \in InhaleEnds(ev.trans) =>
                    /\ r.pre.inhale_start_time # None
                    /\ r.post.last_inhale_duration
                         = ev.now - r.pre.inhale_start_time
                    /\ i = Len(ev.trans)
                    /\ d.last_inhale_duration = r.post.last_inhale_duration
               /\ \A k \in 1..Len(h) : h[k].b = r.pre.last_inhale_duration
               /\ i = 1 =>
                    r.pre.last_inhale_duration = ev.pre.last_inhale_duration
               /\ i < Len(ev.trans) =>
                    ev.trans[i + 1].pre.last_inhale_duration
                      = r.post.last_inhale_duration

\* an exhale entered from Idle has been handed off with the constructor's
\* 2.0 s, although an inhale of another length came before the Idle phase
C39_DefaultPairedAcrossIdle ==
  /\ ev.kind = "tick"
  /\ \E i \in 1..Len(ev.trans) :
       LET r == ev.trans[i]
       IN /\ HandOffs(r.log) # <<>>
          /\ HandOffs(r.log)[1].b = Cs(200)
          /\ r.pre.inhale_start_time # None
          /\ r.pre.inhale_start_time < r.pre.exhale_start_time
          /\ r.pre.exhale_start_time - r.pre.inhale_start_time > IdleHoldNeeded
  /\ d.last_inhale_duration = Cs(200)

\* C40: is_calibrating changes only in a valid end_exhale call, from true to
\* false, and only with breath_count >= calibration_breaths at that moment;
\* set_thresholds leaves it as it was, whether the new calibration_breaths
\* lies above breath_count (calibration is not restored) or at or below it
\* (calibration goes on until the next valid breath, which ends it).  The
\* same holds for the metrics object.
C40_CalibrationEndsOnlyInEndExhale ==
  /\ mood.is_calibrating # ev.pre_mood.is_calibrating =>
       /\ ValidEndExhale
       /\ ev.pre_mood.is_calibrating
       /\ mood.breath_count >= mood.calibration_breaths
  /\ bm.is_calibrating # ev.pre_bm.is_calibrating =>
       /\ ValidEndExhale
       /\ ev.pre_bm.is_calibrating
       /\ bm.breath_count >= bm.calibration_breaths
  /\ ev.kind = "set_thresholds" =>
       /\ mood.calibration_breaths = ev.a
       /\ bm.calibration_breaths = ev.a
       /\ mood.is_calibrating = ev.pre_mood.is_calibrating
       /\ bm.is_calibrating = ev.pre_bm.is_calibrating
       /\ mood.breath_count = ev.pre_mood.breath_count
  /\ ValidEndExhale =>
       /\ mood.breath_count = ev.pre_mood.breath_count + 1
       /\ mood.breath_count >= mood.calibration_breaths => ~mood.is_calibrating
       /\ bm.breath_count >= bm.calibration_breaths => ~bm.is_calibrating
  /\ (ev.kind = "end_exhale" /\ ~ValidEndExhale) =>
       /\ mood = ev.pre_mood
       /\ bm.is_calibrating = ev.pre_bm.is_calibrating

\* calibration_breaths was lowered to no more than breath_count while
\* calibrating, and the valid breath recorded now has ended the calibration
C40_LoweredThenNextBreathEnds ==
  /\ ValidEndExhale
  /\ ev.pre_mood.is_calibrating
  /\ ev.pre_mood.breath_count >= ev.pre_mood.calibration_breaths
  /\ ev.pre_mood.calibration_breaths < CALIBRATION_BREATHS
  /\ ~mood.is_calibrating
  /\ ~bm.is_calibrating

====
